---- MODULE Spec2Model ----
(***************************************************************************)
(* PersonaSync client: the AI coach API service (ai_coach_api.ts) and the  *)
(* coach screen that drives it, as state machines.                         *)
(*                                                                         *)
(* Three specifications share the variables of this module:                *)
(*   SpecTrigger  detectMotivationTrigger applied to bounded inputs        *)
(*   SpecApi      one call of an API function through aiCoachFetch         *)
(*   SpecCoach    the coach screen: handlers, requests in flight, effects  *)
(* Each specification keeps the variables of the others at their idle      *)
(* values.  Turkish texts are written without diacritics.                  *)
(***************************************************************************)
EXTENDS Integers, Sequences, FiniteSets, TLC

VARIABLES
    \* detectMotivationTrigger harness
    mtInput,        \* [cancelledToday, completedToday, minutesToday, dailyTargetMinutes]
    mtResult,       \* NotCalled, or what detectMotivationTrigger returned
    \* one call of an API function
    apiOp,          \* the exported function being called, or "none"
    apiPc,          \* "idle" | "fetch" (awaiting fetch) | "done" (settled)
    apiFetches,     \* outbound requests performed by the current call
    apiResponse,    \* what fetch resolved with, if it resolved
    apiOutcome,     \* how the returned promise settled
    \* AuthContext
    token,          \* access token, or Null
    user,           \* user, or Null
    stored,         \* AsyncStorage holds the token and user keys
    logoutPending,  \* logout calls awaiting AsyncStorage.multiRemove
    \* CoachScreen state (useState)
    advice, adviceLoading, adviceError,
    feedbackState, feedbackLoading, alternative,
    motivation, motivationLoading, motivationError, motivationVisible,
    report, reportLoading, reportError, reportVisible,
    refreshing,
    \* CoachScreen environment
    focused,        \* the coach tab is the focused screen
    effectDue,      \* the focus effect's callback changed since it last ran
    inflight,       \* coach API requests awaiting their response
    issued,         \* requests issued so far (request ids)
    sessionPrompts, \* open 'Oturum Sona Erdi' alerts
    errorAlerts,    \* open 'Hata' alerts
    adviceFailed,   \* history: the last daily-advice completion was a failure
                    \* and the user has not acted since
    \* one coaching request from the client through the coaching service
    svcRequest,     \* the request the client sent, or NoRequest
    svcStage,       \* stage of the request inside the Coaching Orchestrator
    svcTrail,       \* history: the stages the request has been in, in order
    svcGatewayCalls,\* calls of the Generative Model Gateway made for the request
    svcOutcome,     \* how the client's promise settled
    svcServed,      \* requests served so far
    \* sendFeedback and checkAIHealth seen from the wire
    fbRequest,      \* the FeedbackRequest sendFeedback was called with
    fbSent,         \* the request sendFeedback handed to fetch, or NotSent
    hcPc,           \* checkAIHealth: "idle" | "fetch" | "done"
    hcSent,         \* the request checkAIHealth handed to fetch, or NotSent
    hcResponse,     \* what its fetch resolved with, if it resolved
    hcResult,       \* how the promise of checkAIHealth settled
    \* PomodoroScreen state (useState)
    minutes, seconds, milliseconds,   \* remaining time; milliseconds counts tenths
    isActive, mode, isInteractionLocked,
    completedPomodoros, currentStreak,
    workDuration, shortBreakDuration, longBreakDuration,
    breaksEnabled, longBreaksEnabled, longBreakInterval, autoStart,
    showCustomDuration,   \* the custom-duration modal is open
    \* PomodoroScreen environment
    closure,        \* the settings seen by the callback of the running interval
    autoStartDue,   \* a setTimeout(() => setIsActive(true), 100) is pending
    ticks,          \* interval ticks taken so far
    forcedToWork,   \* history: the last step was a switch forcing the return to WORK
    durationSteps,  \* presses of the break-duration buttons so far
    \* AuthProvider and RootLayoutNav
    isLoading,      \* loadStoredAuth has not finished
    authToken,      \* token state of the AuthProvider, or Null
    authUser,       \* user state of the AuthProvider, or NoUser
    storage,        \* what AsyncStorage holds under the token and user keys
    segments,       \* segments[0] of the current route
    guardDue,       \* a dependency of the guard effect changed since it last ran
    redirected,     \* history: where the guard last sent the user, or NoRedirect
    \* RegisterScreen and one call of handleRegister
    fullName, email, password, confirmPassword,   \* the form, as typed
    registerLoading,\* isLoading of the RegisterScreen
    regPc,          \* "idle" | "register" | "login" | "getUser" | "store" | "done"
    regSent,        \* requests the current call has sent, in order
    regResults,     \* how those settled so far, in order
    regStored,      \* login of the auth context has stored the user
    regAlert,       \* title of the last alert shown, or NoAlert
    regAttempts     \* presses of the register button so far

mtVars == <<mtInput, mtResult>>
apiVars == <<apiOp, apiPc, apiFetches, apiResponse, apiOutcome>>
authVars == <<token, user, stored, logoutPending>>
adviceVars == <<advice, adviceLoading, adviceError>>
feedbackVars == <<feedbackState, feedbackLoading, alternative>>
motivationVars == <<motivation, motivationLoading, motivationError, motivationVisible>>
reportVars == <<report, reportLoading, reportError, reportVisible>>
alertVars == <<sessionPrompts, errorAlerts>>
netVars == <<inflight, issued>>
coachVars == <<authVars, adviceVars, feedbackVars, motivationVars, reportVars, alertVars,
               netVars, refreshing, focused, effectDue, adviceFailed>>
svcVars == <<svcRequest, svcStage, svcTrail, svcGatewayCalls, svcOutcome, svcServed>>
clVars == <<fbRequest, fbSent, hcPc, hcSent, hcResponse, hcResult>>
timeVars == <<minutes, seconds, milliseconds>>
durationVars == <<workDuration, shortBreakDuration, longBreakDuration>>
settingVars == <<breaksEnabled, longBreaksEnabled, longBreakInterval, autoStart>>
progressVars == <<completedPomodoros, currentStreak>>
sheetVars == <<showCustomDuration, durationSteps>>
timerVars == <<timeVars, isActive, mode, isInteractionLocked, progressVars, durationVars,
               settingVars, closure, autoStartDue, ticks, forcedToWork, sheetVars>>
guardVars == <<isLoading, authToken, authUser, storage, segments, guardDue, redirected>>
formVars == <<fullName, email, password, confirmPassword>>
regVars == <<formVars, registerLoading, regPc, regSent, regResults, regStored, regAlert,
             regAttempts>>
vars == <<mtVars, apiVars, coachVars, svcVars, clVars, timerVars, guardVars, regVars>>

\* What the actions of one specification leave alone: the variables of the others.
outsideTrigger == <<apiVars, coachVars, svcVars, clVars, timerVars, guardVars, regVars>>
outsideApi == <<mtVars, coachVars, svcVars, clVars, timerVars, guardVars, regVars>>
outsideCoach == <<mtVars, apiVars, svcVars, clVars, timerVars, guardVars, regVars>>
outsideService == <<mtVars, apiVars, coachVars, clVars, timerVars, guardVars, regVars>>
outsideClient == <<mtVars, apiVars, coachVars, svcVars, timerVars, guardVars, regVars>>
outsideTimer == <<mtVars, apiVars, coachVars, svcVars, clVars, guardVars, regVars>>
outsideGuard == <<mtVars, apiVars, coachVars, svcVars, clVars, timerVars, regVars>>
outsideRegister == <<mtVars, apiVars, coachVars, svcVars, clVars, timerVars, guardVars>>

(***************************************************************************)
(* Bounds                                                                  *)
(***************************************************************************)
MaxSessions == 8
MaxMinutes == 12
MaxRequests == 3

\* Minute values beyond 0..MaxMinutes that the documented examples use.
MinuteSamples == {60, 120, 180}
SessionCounts == 0..MaxSessions
MinuteValues == (0..MaxMinutes) \cup MinuteSamples

(***************************************************************************)
(* detectMotivationTrigger (pure).  A rate is the exact quotient num/den,  *)
(* kept as a pair; the thresholds 0.5, 1.0 and 0.3 are 1/2, 1/1 and 3/10.  *)
(* Within the bounds IEEE rounding of the quotient cannot move it across   *)
(* a threshold, so the comparisons are those of the exact rationals.       *)
(***************************************************************************)
Null == "null"
NotCalled == "not_called"

Rate(num, den) == [num |-> num, den |-> den]
RateGT(r, n, d) == r.num * d > n * r.den
RateGE(r, n, d) == r.num * d >= n * r.den
RateLT(r, n, d) == r.num * d < n * r.den

cancelRateOf(cancelledToday, completedToday) ==
    LET total == cancelledToday + completedToday
    IN  IF total > 0 THEN Rate(cancelledToday, total) ELSE Rate(0, 1)

progressRateOf(minutesToday, dailyTargetMinutes) ==
    IF dailyTargetMinutes > 0 THEN Rate(minutesToday, dailyTargetMinutes) ELSE Rate(0, 1)

\* Mutant: the total >= 2 guard of the cancel-rate check dropped.
detectMotivationTriggerAnyTotal(cancelledToday, completedToday, minutesToday, dailyTargetMinutes) ==
    LET cancelRate == cancelRateOf(cancelledToday, completedToday)
        progressRate == progressRateOf(minutesToday, dailyTargetMinutes)
    IN  IF RateGT(cancelRate, 1, 2) THEN "high_cancel_rate"
        ELSE IF RateGE(progressRate, 1, 1) THEN "goal_achieved"
        ELSE IF RateLT(progressRate, 3, 10) /\ minutesToday > 0 THEN "low_performance"
        ELSE Null

\* Mutant: progressRate <= 0.3 instead of < 0.3.
detectMotivationTriggerLowInclusive(cancelledToday, completedToday, minutesToday, dailyTargetMinutes) ==
    LET total == cancelledToday + completedToday
        cancelRate == cancelRateOf(cancelledToday, completedToday)
        progressRate == progressRateOf(minutesToday, dailyTargetMinutes)
    IN  IF RateGT(cancelRate, 1, 2) /\ total >= 2 THEN "high_cancel_rate"
        ELSE IF RateGE(progressRate, 1, 1) THEN "goal_achieved"
        ELSE IF ~RateGT(progressRate, 3, 10) /\ minutesToday > 0 THEN "low_performance"
        ELSE Null

detectMotivationTrigger(cancelledToday, completedToday, minutesToday, dailyTargetMinutes) ==
    LET total == cancelledToday + completedToday
        cancelRate == cancelRateOf(cancelledToday, completedToday)
        progressRate == progressRateOf(minutesToday, dailyTargetMinutes)
    IN  IF RateGT(cancelRate, 1, 2) /\ total >= 2 THEN "high_cancel_rate"
        ELSE IF RateGE(progressRate, 1, 1) THEN "goal_achieved"
        ELSE IF RateLT(progressRate, 3, 10) /\ minutesToday > 0 THEN "low_performance"
        ELSE Null

MtIdle == [cancelledToday |-> 0, completedToday |-> 0, minutesToday |-> 0,
           dailyTargetMinutes |-> 0]

MtInit ==
    /\ mtInput \in [cancelledToday : SessionCounts, completedToday : SessionCounts,
                    minutesToday : MinuteValues, dailyTargetMinutes : MinuteValues]
    /\ mtResult = NotCalled

CallDetect ==
    /\ mtResult = NotCalled
    /\ mtResult' = detectMotivationTrigger(mtInput.cancelledToday, mtInput.completedToday,
                                           mtInput.minutesToday, mtInput.dailyTargetMinutes)
    /\ UNCHANGED <<mtInput, outsideTrigger>>

(***************************************************************************)
(* Error classes of ai_coach_api.ts.  An error is a record; "SyntaxError"  *)
(* is the rejection of response.json() on a body that is not JSON, which   *)
(* is no AICoachError.                                                     *)
(***************************************************************************)
AICoachClasses ==
    {"AICoachError", "AICoachAuthError", "AICoachRateLimitError", "AICoachUnavailableError"}

NoValue == "none"

Thrown(cls, message, statusCode, userMessage) ==
    [kind |-> "throw", cls |-> cls, message |-> message, statusCode |-> statusCode,
     userMessage |-> userMessage, value |-> NoValue]

Returned(value) ==
    [kind |-> "return", cls |-> "none", message |-> "", statusCode |-> 0,
     userMessage |-> "", value |-> value]

NoOutcome ==
    [kind |-> "none", cls |-> "none", message |-> "", statusCode |-> 0,
     userMessage |-> "", value |-> NoValue]

AICoachError(message, statusCode, userMessage) ==
    Thrown("AICoachError", message, statusCode, userMessage)

AICoachAuthError ==
    Thrown("AICoachAuthError", "Token gecersiz veya suresi dolmus", 401,
           "Oturumunuz sona erdi. Lutfen tekrar giris yapin.")

AICoachRateLimitError ==
    Thrown("AICoachRateLimitError", "AI koc rate limit", 429,
           "AI koc su an yogun. Birkac saniye sonra tekrar deneyin.")

AICoachUnavailableError ==
    Thrown("AICoachUnavailableError", "AI koc servisi kullanilamiyor", 503,
           "AI koc su an kullanilamiyor. Daha sonra tekrar deneyin.")

\* response.json() rejecting: a SyntaxError, which carries no userMessage.
JsonSyntaxError ==
    Thrown("SyntaxError", "Unexpected token in JSON", 0, "")

(***************************************************************************)
(* Responses.  A body is JSON or not; a JSON body carries a detail text    *)
(* ("" when the field is absent, null or empty: all falsy) and a payload.  *)
(***************************************************************************)
Statuses == {200, 201, 204, 301, 400, 401, 403, 404, 422, 429, 500, 502, 503, 504}
Details == {"days 3-30 arasinda olmali", "Gemini raw: <model output>"}
Payloads == {"payload"}

NotJsonBody == [json |-> FALSE, detail |-> "", payload |-> NoValue]
JsonBody(detail, payload) == [json |-> TRUE, detail |-> detail, payload |-> payload]

Bodies ==
    {NotJsonBody}
        \cup {JsonBody(d, NoValue) : d \in Details \cup {""}}
        \cup {JsonBody("", p) : p \in Payloads}

NoResponse == [received |-> FALSE, status |-> 0, body |-> NotJsonBody]
Response(status, body) == [received |-> TRUE, status |-> status, body |-> body]

NetworkCause == "TypeError: Network request failed"

responseOk(status) == status >= 200 /\ status <= 299

\* response.json() of the success path: the decoded body, or a rejection.
responseJson(body) ==
    IF body.json THEN Returned(body.payload) ELSE JsonSyntaxError

\* errorDetail of the failure path: body.detail when the body decodes and the
\* detail is truthy, 'Bilinmeyen hata' otherwise.
errorDetailOf(body) ==
    IF body.json /\ body.detail # "" THEN body.detail ELSE "Bilinmeyen hata"

networkFailure ==
    AICoachError("Network hatasi: " \o NetworkCause, 0,
                 "Internet baglantinizi kontrol edin.")

\* Mutant: the 429 case missing, so a rate limit falls through to the default.
aiCoachFetchNoRateLimit(status, body) ==
    IF responseOk(status) THEN responseJson(body)
    ELSE LET errorDetail == errorDetailOf(body)
         IN  CASE status = 401 -> AICoachAuthError
               [] status = 400 -> AICoachError(errorDetail, 400, errorDetail)
               [] status = 502 ->
                    AICoachError("Gemini parse hatasi", 502,
                                 "AI koc gecici bir sorun yasiyor. Lutfen tekrar deneyin.")
               [] status = 503 -> AICoachUnavailableError
               [] OTHER ->
                    AICoachError("HTTP " \o ToString(status) \o ": " \o errorDetail, status,
                                 "Bir hata olustu. Lutfen tekrar deneyin.")

\* Mutant: the 502 case passes the server's detail on as the user message.
aiCoachFetchLeaky(status, body) ==
    IF responseOk(status) THEN responseJson(body)
    ELSE LET errorDetail == errorDetailOf(body)
         IN  CASE status = 401 -> AICoachAuthError
               [] status = 429 -> AICoachRateLimitError
               [] status = 400 -> AICoachError(errorDetail, 400, errorDetail)
               [] status = 502 -> AICoachError("Gemini parse hatasi", 502, errorDetail)
               [] status = 503 -> AICoachUnavailableError
               [] OTHER ->
                    AICoachError("HTTP " \o ToString(status) \o ": " \o errorDetail, status,
                                 "Bir hata olustu. Lutfen tekrar deneyin.")

\* Mutant: every status below 500 is taken for a success.
aiCoachFetchOkBelow500(status, body) ==
    IF status < 500 THEN responseJson(body)
    ELSE LET errorDetail == errorDetailOf(body)
         IN  CASE status = 502 ->
                    AICoachError("Gemini parse hatasi", 502,
                                 "AI koc gecici bir sorun yasiyor. Lutfen tekrar deneyin.")
               [] status = 503 -> AICoachUnavailableError
               [] OTHER ->
                    AICoachError("HTTP " \o ToString(status) \o ": " \o errorDetail, status,
                                 "Bir hata olustu. Lutfen tekrar deneyin.")

\* aiCoachFetch once fetch has resolved with (status, body).
aiCoachFetch(status, body) ==
    IF responseOk(status) THEN responseJson(body)
    ELSE LET errorDetail == errorDetailOf(body)
         IN  CASE status = 401 -> AICoachAuthError
               [] status = 429 -> AICoachRateLimitError
               [] status = 400 -> AICoachError(errorDetail, 400, errorDetail)
               [] status = 502 ->
                    AICoachError("Gemini parse hatasi", 502,
                                 "AI koc gecici bir sorun yasiyor. Lutfen tekrar deneyin.")
               [] status = 503 -> AICoachUnavailableError
               [] OTHER ->
                    AICoachError("HTTP " \o ToString(status) \o ": " \o errorDetail, status,
                                 "Bir hata olustu. Lutfen tekrar deneyin.")

isAICoachError(outcome) == outcome.kind = "throw" /\ outcome.cls \in AICoachClasses

getAIErrorMessage(error) ==
    IF isAICoachError(error) THEN error.userMessage
    ELSE "Beklenmeyen bir hata olustu. Lutfen tekrar deneyin."

isAuthError(error) == error.kind = "throw" /\ error.cls = "AICoachAuthError"

(***************************************************************************)
(* One call of an exported API function.  Each is a single aiCoachFetch,   *)
(* which performs a single fetch.                                          *)
(***************************************************************************)
ApiOps == {"getDailyAdvice", "getWeeklyReport", "getMotivation", "sendFeedback",
           "getSessionSummary"}

ApiIdle ==
    /\ apiOp = "none"
    /\ apiPc = "idle"
    /\ apiFetches = 0
    /\ apiResponse = NoResponse
    /\ apiOutcome = NoOutcome

\* The function is entered and aiCoachFetch awaits fetch(url, ...).
CallApi(op) ==
    /\ apiPc = "idle"
    /\ apiOp' = op
    /\ apiPc' = "fetch"
    /\ apiFetches' = apiFetches + 1
    /\ apiResponse' = NoResponse
    /\ apiOutcome' = NoOutcome
    /\ UNCHANGED <<outsideApi>>

\* Mutant: a transport failure is retried instead of thrown.
FetchRejectsRetry ==
    /\ apiPc = "fetch"
    /\ apiFetches < 3
    /\ apiFetches' = apiFetches + 1
    /\ UNCHANGED <<apiOp, apiPc, apiResponse, apiOutcome, outsideApi>>

\* fetch rejects: the catch block throws the network AICoachError.
FetchRejects ==
    /\ apiPc = "fetch"
    /\ apiPc' = "done"
    /\ apiOutcome' = networkFailure
    /\ UNCHANGED <<apiOp, apiFetches, apiResponse, outsideApi>>

\* fetch resolves with a response.
FetchResolves(status, body) ==
    /\ apiPc = "fetch"
    /\ apiPc' = "done"
    /\ apiResponse' = Response(status, body)
    /\ apiOutcome' = aiCoachFetch(status, body)
    /\ UNCHANGED <<apiOp, apiFetches, outsideApi>>

\* The caller has consumed the settled promise.
ApiReturn ==
    /\ apiPc = "done"
    /\ apiOp' = "none"
    /\ apiPc' = "idle"
    /\ apiFetches' = 0
    /\ apiResponse' = NoResponse
    /\ apiOutcome' = NoOutcome
    /\ UNCHANGED <<outsideApi>>

(***************************************************************************)
(* AuthContext and CoachScreen                                             *)
(***************************************************************************)
Token == "jwt"
User == "user"
Advices == {"Pomodoro 25/5", "Feynman Teknigi"}
\* Technique names the generative model may answer an alternative request with.
Alternatives == {"10/2 Mini Pomodoro", "POMODORO 25/5", "feynman teknigi"}
CoachErrorStatuses == {400, 401, 502}
CoachDetail == "days 3-30 arasinda olmali"
GenerationFailed == "generation_failed"

\* Lower-casing of the technique names in use.
toLowerCase(name) ==
    CASE name = "Pomodoro 25/5" -> "pomodoro 25/5"
      [] name = "POMODORO 25/5" -> "pomodoro 25/5"
      [] name = "Feynman Teknigi" -> "feynman teknigi"
      [] name = "10/2 Mini Pomodoro" -> "10/2 mini pomodoro"
      [] OTHER -> name

\* getAlternativeTechnique of the Coaching Orchestrator: the Parser rejects, as a
\* SchemaViolation, a technique equal to the excluded one ignoring case; a failed
\* generation, whatever its kind, yields no alternative.
getAlternativeTechnique(rejected, generated) ==
    IF generated = GenerationFailed THEN GenerationFailed
    ELSE IF toLowerCase(generated) = toLowerCase(rejected) THEN GenerationFailed
    ELSE generated

\* Feedback Recorder of the backend: the feedback is recorded and answered with
\* success; the alternative is the generated technique for a dislike whose
\* generation succeeded and null otherwise.
FeedbackRecorder(technique, liked, generated) ==
    IF ~liked /\ generated # GenerationFailed THEN generated ELSE Null

NewRequest(op, liked, technique, refresh) ==
    [id |-> issued + 1, op |-> op, liked |-> liked, technique |-> technique,
     refresh |-> refresh]

\* The 2xx payloads a request can be answered with.
PayloadsFor(r) ==
    CASE r.op = "daily" -> Advices
      [] r.op = "feedback" ->
            {FeedbackRecorder(r.technique, r.liked, getAlternativeTechnique(r.technique, g)) :
                g \in Alternatives \cup {GenerationFailed}}
      [] r.op = "motivation" -> {"motivation"}
      [] r.op = "report" -> {"report"}

\* What the fetch of a request can settle with: a transport failure or a response.
CoachNet(r) ==
    {NoResponse}
        \cup {Response(200, NotJsonBody)}
        \cup {Response(200, JsonBody("", p)) : p \in PayloadsFor(r)}
        \cup {Response(st, JsonBody(CoachDetail, NoValue)) : st \in CoachErrorStatuses}

\* The promise of the API function for a fetch that settled with net.
settle(net) ==
    IF net.received THEN aiCoachFetch(net.status, net.body) ELSE networkFailure

\* What the focus effect's callback is rebuilt from: its dependency list, with
\* loadDailyAdvice standing for token and handleAuthError (logout of the context).
Deps == <<advice, adviceLoading, adviceError, token, user>>

EffectPending == focused /\ effectDue

\* After a handler's state updates are rendered: the focus effect is due again
\* when its callback changed and the screen is focused.
Commit == effectDue' = (focused' /\ (effectDue \/ Deps' # Deps))

\* An Alert is modal; a handler runs after the effects of the last render.
UserCanAct == focused /\ ~EffectPending /\ sessionPrompts = 0 /\ errorAlerts = 0

\* Mutant: no error is recognised as an auth error.
handleAuthErrorNever(error) == FALSE

\* handleAuthError: shows the session prompt and returns true for an auth error.
handleAuthError(error) == isAuthError(error)

AlternativeCardShown ==
    ~adviceLoading /\ advice # Null /\ feedbackState = "disliked" /\ alternative # Null

CoachInit ==
    /\ token = Token /\ user = User /\ stored = TRUE /\ logoutPending = 0
    /\ advice = Null /\ adviceLoading = FALSE /\ adviceError = Null
    /\ feedbackState = Null /\ feedbackLoading = FALSE /\ alternative = Null
    /\ motivation = Null /\ motivationLoading = FALSE /\ motivationError = Null
    /\ motivationVisible = FALSE
    /\ report = Null /\ reportLoading = FALSE /\ reportError = Null
    /\ reportVisible = FALSE
    /\ refreshing = FALSE
    /\ focused = TRUE /\ effectDue = TRUE
    /\ inflight = {} /\ issued = 0
    /\ sessionPrompts = 0 /\ errorAlerts = 0
    /\ adviceFailed = FALSE

\* loadDailyAdvice up to its await.
loadDailyAdvice(refresh) ==
    IF token = Null
    THEN UNCHANGED <<adviceLoading, adviceError, feedbackState, alternative, netVars>>
    ELSE /\ issued < MaxRequests
         /\ adviceLoading' = TRUE
         /\ adviceError' = Null
         /\ feedbackState' = Null
         /\ alternative' = Null
         /\ inflight' = inflight \cup {NewRequest("daily", FALSE, Null, refresh)}
         /\ issued' = issued + 1

\* useFocusEffect: runs when the screen is focused and its callback changed.
FocusEffect ==
    /\ EffectPending
    /\ IF advice = Null /\ ~adviceLoading /\ adviceError = Null
       THEN loadDailyAdvice(FALSE)
       ELSE UNCHANGED <<adviceLoading, adviceError, feedbackState, alternative, netVars>>
    /\ UNCHANGED <<advice, feedbackLoading, motivationVars, reportVars, alertVars, authVars,
                   refreshing, focused, adviceFailed, outsideCoach>>
    /\ effectDue' = (Deps' # Deps)

\* ErrorCard 'Tekrar Dene' of the daily advice section.
PressRetry ==
    /\ UserCanAct
    /\ ~adviceLoading /\ adviceError # Null
    /\ loadDailyAdvice(FALSE)
    /\ adviceFailed' = FALSE
    /\ UNCHANGED <<advice, feedbackLoading, motivationVars, reportVars, alertVars, authVars,
                   refreshing, focused, outsideCoach>>
    /\ Commit

\* 'Farkli oneri al' button.
PressDifferentAdvice ==
    /\ UserCanAct
    /\ ~adviceLoading
    /\ loadDailyAdvice(FALSE)
    /\ adviceFailed' = FALSE
    /\ UNCHANGED <<advice, feedbackLoading, motivationVars, reportVars, alertVars, authVars,
                   refreshing, focused, outsideCoach>>
    /\ Commit

\* onRefresh up to the await inside loadDailyAdvice; with no token loadDailyAdvice
\* returns at once and refreshing is cleared again.
PullToRefresh ==
    /\ UserCanAct
    /\ ~refreshing
    /\ advice' = Null
    /\ motivation' = Null
    /\ motivationVisible' = FALSE
    /\ report' = Null
    /\ reportVisible' = FALSE
    /\ loadDailyAdvice(TRUE)
    /\ refreshing' = (token # Null)
    /\ adviceFailed' = FALSE
    /\ UNCHANGED <<feedbackLoading, motivationLoading, motivationError, reportLoading,
                   reportError, alertVars, authVars, focused, outsideCoach>>
    /\ Commit

\* Mutant: a response is dropped when a later-issued daily request is in flight.
CompleteDailyAdviceLatestIssued(r, net) ==
    /\ ~EffectPending
    /\ r \in inflight /\ r.op = "daily" /\ net \in CoachNet(r)
    /\ LET out == settle(net)
           failed == out.kind = "throw"
           auth == failed /\ handleAuthError(out)
           stale == \E d \in inflight : d.op = "daily" /\ d.id > r.id
       IN  /\ advice' = IF failed \/ stale THEN advice ELSE out.value
           /\ sessionPrompts' = IF auth THEN sessionPrompts + 1 ELSE sessionPrompts
           /\ adviceError' = IF failed /\ ~auth THEN getAIErrorMessage(out) ELSE adviceError
           /\ adviceFailed' = failed
    /\ adviceLoading' = FALSE
    /\ refreshing' = IF r.refresh THEN FALSE ELSE refreshing
    /\ inflight' = inflight \ {r}
    /\ UNCHANGED <<issued, feedbackVars, motivationVars, reportVars, errorAlerts, authVars,
                   focused, outsideCoach>>
    /\ Commit

\* loadDailyAdvice after its await: try / catch / finally, then the rest of
\* onRefresh when the request was issued by it.
CompleteDailyAdvice(r, net) ==
    /\ ~EffectPending
    /\ r \in inflight /\ r.op = "daily" /\ net \in CoachNet(r)
    /\ LET out == settle(net)
           failed == out.kind = "throw"
           auth == failed /\ handleAuthError(out)
       IN  /\ advice' = IF failed THEN advice ELSE out.value
           /\ sessionPrompts' = IF auth THEN sessionPrompts + 1 ELSE sessionPrompts
           /\ adviceError' = IF failed /\ ~auth THEN getAIErrorMessage(out) ELSE adviceError
           /\ adviceFailed' = failed
    /\ adviceLoading' = FALSE
    /\ refreshing' = IF r.refresh THEN FALSE ELSE refreshing
    /\ inflight' = inflight \ {r}
    /\ UNCHANGED <<issued, feedbackVars, motivationVars, reportVars, errorAlerts, authVars,
                   focused, outsideCoach>>
    /\ Commit

\* Mutant: the technique sent is a fixed name, not the technique of the advice shown.
PressFeedbackFixedTechnique(liked) ==
    /\ UserCanAct
    /\ ~adviceLoading /\ advice # Null /\ feedbackState = Null /\ ~feedbackLoading
    /\ IF token = Null \/ advice = Null \/ feedbackState # Null
       THEN UNCHANGED <<feedbackLoading, netVars>>
       ELSE /\ issued < MaxRequests
            /\ feedbackLoading' = TRUE
            /\ inflight' = inflight \cup {NewRequest("feedback", liked, "Pomodoro 25/5", FALSE)}
            /\ issued' = issued + 1
    /\ UNCHANGED <<adviceVars, feedbackState, alternative, motivationVars, reportVars,
                   alertVars, authVars, refreshing, focused, adviceFailed, outsideCoach>>
    /\ Commit

\* handleFeedback up to its await (the like and dislike buttons of the card).
PressFeedback(liked) ==
    /\ UserCanAct
    /\ ~adviceLoading /\ advice # Null /\ feedbackState = Null /\ ~feedbackLoading
    /\ IF token = Null \/ advice = Null \/ feedbackState # Null
       THEN UNCHANGED <<feedbackLoading, netVars>>
       ELSE /\ issued < MaxRequests
            /\ feedbackLoading' = TRUE
            /\ inflight' = inflight \cup {NewRequest("feedback", liked, advice, FALSE)}
            /\ issued' = issued + 1
    /\ UNCHANGED <<adviceVars, feedbackState, alternative, motivationVars, reportVars,
                   alertVars, authVars, refreshing, focused, adviceFailed, outsideCoach>>
    /\ Commit

\* Mutant: a dislike is marked as given only when an alternative came back.
CompleteFeedbackNeedsAlternative(r, net) ==
    /\ ~EffectPending
    /\ r \in inflight /\ r.op = "feedback" /\ net \in CoachNet(r)
    /\ LET out == settle(net)
           failed == out.kind = "throw"
           auth == failed /\ handleAuthError(out)
       IN  /\ feedbackState' =
                IF failed THEN feedbackState
                ELSE IF r.liked THEN "liked"
                ELSE IF out.value # Null THEN "disliked" ELSE feedbackState
           /\ alternative' =
                IF ~failed /\ ~r.liked /\ out.value # Null THEN out.value ELSE alternative
           /\ sessionPrompts' = IF auth THEN sessionPrompts + 1 ELSE sessionPrompts
           /\ errorAlerts' = IF failed /\ ~auth THEN errorAlerts + 1 ELSE errorAlerts
    /\ feedbackLoading' = FALSE
    /\ inflight' = inflight \ {r}
    /\ UNCHANGED <<issued, adviceVars, motivationVars, reportVars, authVars, refreshing,
                   focused, adviceFailed, outsideCoach>>
    /\ Commit

\* handleFeedback after its await.
CompleteFeedback(r, net) ==
    /\ ~EffectPending
    /\ r \in inflight /\ r.op = "feedback" /\ net \in CoachNet(r)
    /\ LET out == settle(net)
           failed == out.kind = "throw"
           auth == failed /\ handleAuthError(out)
       IN  /\ feedbackState' =
                IF failed THEN feedbackState
                ELSE IF r.liked THEN "liked" ELSE "disliked"
           /\ alternative' =
                IF ~failed /\ ~r.liked /\ out.value # Null THEN out.value ELSE alternative
           /\ sessionPrompts' = IF auth THEN sessionPrompts + 1 ELSE sessionPrompts
           /\ errorAlerts' = IF failed /\ ~auth THEN errorAlerts + 1 ELSE errorAlerts
    /\ feedbackLoading' = FALSE
    /\ inflight' = inflight \ {r}
    /\ UNCHANGED <<issued, adviceVars, motivationVars, reportVars, authVars, refreshing,
                   focused, adviceFailed, outsideCoach>>
    /\ Commit

\* loadMotivation('user_request') up to its await: the 'Motivasyon Al' button, the
\* error card's retry and 'Baska bir mesaj al'.
PressMotivation ==
    /\ UserCanAct
    /\ \/ ~motivationVisible
       \/ ~motivationLoading /\ motivationVisible /\ motivationError # Null
       \/ ~motivationLoading /\ motivation # Null
    /\ IF token = Null
       THEN UNCHANGED <<motivationVars, netVars>>
       ELSE /\ issued < MaxRequests
            /\ motivationLoading' = TRUE
            /\ motivationError' = Null
            /\ motivationVisible' = TRUE
            /\ motivation' = Null
            /\ inflight' = inflight \cup {NewRequest("motivation", FALSE, Null, FALSE)}
            /\ issued' = issued + 1
    /\ UNCHANGED <<adviceVars, feedbackVars, reportVars, alertVars, authVars, refreshing,
                   focused, adviceFailed, outsideCoach>>
    /\ Commit

\* loadMotivation after its await.
CompleteMotivation(r, net) ==
    /\ ~EffectPending
    /\ r \in inflight /\ r.op = "motivation" /\ net \in CoachNet(r)
    /\ LET out == settle(net)
           failed == out.kind = "throw"
           auth == failed /\ handleAuthError(out)
       IN  /\ motivation' = IF failed THEN motivation ELSE out.value
           /\ sessionPrompts' = IF auth THEN sessionPrompts + 1 ELSE sessionPrompts
           /\ motivationError' =
                IF failed /\ ~auth THEN getAIErrorMessage(out) ELSE motivationError
    /\ motivationLoading' = FALSE
    /\ inflight' = inflight \ {r}
    /\ UNCHANGED <<issued, adviceVars, feedbackVars, motivationVisible, reportVars,
                   errorAlerts, authVars, refreshing, focused, adviceFailed, outsideCoach>>
    /\ Commit

\* loadWeeklyReport up to its await: the 'Bu Haftani Analiz Et' button, the error
\* card's retry and the report card's refresh.
PressWeeklyReport ==
    /\ UserCanAct
    /\ \/ ~reportVisible
       \/ ~reportLoading /\ reportVisible /\ reportError # Null
       \/ ~reportLoading /\ report # Null
    /\ IF token = Null
       THEN UNCHANGED <<reportVars, netVars>>
       ELSE /\ issued < MaxRequests
            /\ reportLoading' = TRUE
            /\ reportError' = Null
            /\ reportVisible' = TRUE
            /\ report' = Null
            /\ inflight' = inflight \cup {NewRequest("report", FALSE, Null, FALSE)}
            /\ issued' = issued + 1
    /\ UNCHANGED <<adviceVars, feedbackVars, motivationVars, alertVars, authVars, refreshing,
                   focused, adviceFailed, outsideCoach>>
    /\ Commit

\* loadWeeklyReport after its await.
CompleteWeeklyReport(r, net) ==
    /\ ~EffectPending
    /\ r \in inflight /\ r.op = "report" /\ net \in CoachNet(r)
    /\ LET out == settle(net)
           failed == out.kind = "throw"
           auth == failed /\ handleAuthError(out)
       IN  /\ report' = IF failed THEN report ELSE out.value
           /\ sessionPrompts' = IF auth THEN sessionPrompts + 1 ELSE sessionPrompts
           /\ reportError' = IF failed /\ ~auth THEN getAIErrorMessage(out) ELSE reportError
    /\ reportLoading' = FALSE
    /\ inflight' = inflight \ {r}
    /\ UNCHANGED <<issued, adviceVars, feedbackVars, motivationVars, reportVisible,
                   errorAlerts, authVars, refreshing, focused, adviceFailed, outsideCoach>>
    /\ Commit

\* 'Tamam' of the session prompt: logout up to its await.
ConfirmSessionExpired ==
    /\ ~EffectPending
    /\ sessionPrompts > 0
    /\ sessionPrompts' = sessionPrompts - 1
    /\ logoutPending' = logoutPending + 1
    /\ UNCHANGED <<token, user, stored, errorAlerts, adviceVars, feedbackVars, motivationVars,
                   reportVars, netVars, refreshing, focused, adviceFailed, outsideCoach>>
    /\ Commit

\* logout after AsyncStorage.multiRemove: token and user are cleared when it
\* resolved; when it rejected the error is logged and the session stays.
logout(removed) ==
    /\ ~EffectPending
    /\ logoutPending > 0
    /\ logoutPending' = logoutPending - 1
    /\ IF removed
       THEN stored' = FALSE /\ token' = Null /\ user' = Null
       ELSE UNCHANGED <<stored, token, user>>
    /\ UNCHANGED <<alertVars, adviceVars, feedbackVars, motivationVars, reportVars, netVars,
                   refreshing, focused, adviceFailed, outsideCoach>>
    /\ Commit

\* The button of a 'Hata' alert.
DismissErrorAlert ==
    /\ ~EffectPending
    /\ errorAlerts > 0
    /\ errorAlerts' = errorAlerts - 1
    /\ UNCHANGED <<sessionPrompts, authVars, adviceVars, feedbackVars, motivationVars,
                   reportVars, netVars, refreshing, focused, adviceFailed, outsideCoach>>
    /\ Commit

\* The user leaves the coach tab.
Blur ==
    /\ UserCanAct
    /\ focused' = FALSE
    /\ effectDue' = FALSE
    /\ UNCHANGED <<authVars, adviceVars, feedbackVars, motivationVars, reportVars, alertVars,
                   netVars, refreshing, adviceFailed, outsideCoach>>

\* The user comes back to the coach tab: the focus effect runs.
Focus ==
    /\ ~focused
    /\ sessionPrompts = 0 /\ errorAlerts = 0
    /\ focused' = TRUE
    /\ effectDue' = TRUE
    /\ adviceFailed' = FALSE
    /\ UNCHANGED <<authVars, adviceVars, feedbackVars, motivationVars, reportVars, alertVars,
                   netVars, refreshing, outsideCoach>>

(***************************************************************************)
(* One coaching request end to end: the client's API function, the         *)
(* Coaching Orchestrator pipeline behind the endpoint, and the settling of *)
(* the client's promise by aiCoachFetch.  The pipeline is the state        *)
(* machine of the service contract: Pending, Assembling, Prompting,        *)
(* AwaitingModel, Parsing, then Succeeded or Failed(kind).                 *)
(***************************************************************************)
MaxDays == 32
MaxServed == 2
MinWindowDays == 3
MaxWindowDays == 30
DefaultDays == 7

DaysValues == (0 - 1)..MaxDays

ServiceOps == {"getDailyAdvice", "getWeeklyReport", "getMotivation", "getSessionSummary"}

\* A WeeklyReportRequest object: days is an optional key.
WeeklyReportRequest(has, days) == [has |-> has, days |-> days]
NoDays == WeeklyReportRequest(FALSE, 0)

\* The arguments of a call: the request object, or none given.
CallArgs(given, request) == [given |-> given, request |-> request]
WeeklyArgs ==
    {CallArgs(FALSE, NoDays), CallArgs(TRUE, NoDays)}
        \cup {CallArgs(TRUE, WeeklyReportRequest(TRUE, d)) : d \in DaysValues}
ArgsOf(op) == IF op = "getWeeklyReport" THEN WeeklyArgs ELSE {CallArgs(TRUE, NoDays)}

\* Mutant: the caller's window is dropped and the default is always sent.
getWeeklyReportAlwaysDefault(args) == WeeklyReportRequest(TRUE, DefaultDays)

\* getWeeklyReport: the body sent is the request as given, { days: 7 } when the
\* argument is omitted.
getWeeklyReport(args) ==
    IF args.given THEN args.request ELSE WeeklyReportRequest(TRUE, DefaultDays)

bodyOf(op, args) == IF op = "getWeeklyReport" THEN getWeeklyReport(args) ELSE NoDays

NoRequest == [op |-> "none", args |-> CallArgs(FALSE, NoDays), body |-> NoDays]

\* The window the service uses for a body: days, default 7.
windowOf(body) == IF body.has THEN body.days ELSE DefaultDays
validWindow(days) == days >= MinWindowDays /\ days <= MaxWindowDays

Stages == <<"Pending", "Assembling", "Prompting", "AwaitingModel", "Parsing">>
FailureKinds == {"InvalidRequest", "DataUnavailable", "Unavailable", "RateLimited",
                 "SchemaViolation", "UpstreamError"}
Failed(kind) == "Failed(" \o kind \o ")"
Terminal == {"Succeeded"} \cup {Failed(k) : k \in FailureKinds}

\* Status code mapping of the endpoint.
statusOf(stage) ==
    CASE stage = "Succeeded" -> 200
      [] stage = Failed("InvalidRequest") -> 400
      [] stage = Failed("DataUnavailable") -> 404
      [] stage = Failed("RateLimited") -> 429
      [] stage = Failed("SchemaViolation") -> 502
      [] stage = Failed("UpstreamError") -> 502
      [] stage = Failed("Unavailable") -> 503

responseOf(stage) ==
    IF stage = "Succeeded" THEN Response(200, JsonBody("", "payload"))
    ELSE Response(statusOf(stage), JsonBody(CoachDetail, NoValue))

ServiceIdle ==
    /\ svcRequest = NoRequest
    /\ svcStage = "Idle"
    /\ svcTrail = <<>>
    /\ svcGatewayCalls = 0
    /\ svcOutcome = NoOutcome
    /\ svcServed = 0

\* The pipeline moves to a stage; a terminal stage answers the client, whose
\* aiCoachFetch settles the promise.
enter(stage) ==
    /\ svcStage' = stage
    /\ svcTrail' = Append(svcTrail, stage)
    /\ svcOutcome' = IF stage \in Terminal THEN settle(responseOf(stage)) ELSE svcOutcome

\* The client calls an API function; the request arrives and is Pending.
ClientCall(op, args) ==
    /\ svcStage \in {"Idle"} \cup Terminal
    /\ svcServed < MaxServed
    /\ svcRequest' = [op |-> op, args |-> args, body |-> bodyOf(op, args)]
    /\ svcStage' = "Pending"
    /\ svcTrail' = <<"Pending">>
    /\ svcGatewayCalls' = 0
    /\ svcOutcome' = NoOutcome
    /\ svcServed' = svcServed + 1
    /\ UNCHANGED outsideService

StartAssembling ==
    /\ svcStage = "Pending"
    /\ enter("Assembling")
    /\ UNCHANGED <<svcRequest, svcGatewayCalls, svcServed, outsideService>>

\* Context Assembler: rejects a window outside 3..30, fails when the providers
\* have no data, and otherwise hands the context to the Prompt Builder.
Assembled(available) ==
    /\ svcStage = "Assembling"
    /\ IF svcRequest.op = "getWeeklyReport" /\ ~validWindow(windowOf(svcRequest.body))
       THEN enter(Failed("InvalidRequest"))
       ELSE IF ~available THEN enter(Failed("DataUnavailable"))
       ELSE enter("Prompting")
    /\ UNCHANGED <<svcRequest, svcGatewayCalls, svcServed, outsideService>>

\* Prompt Builder done: the single Gateway round trip starts.
Prompted ==
    /\ svcStage = "Prompting"
    /\ enter("AwaitingModel")
    /\ svcGatewayCalls' = svcGatewayCalls + 1
    /\ UNCHANGED <<svcRequest, svcServed, outsideService>>

GatewayResults == {"raw text", "Unavailable", "RateLimited", "UpstreamError"}

\* Generative Model Gateway: raw text or a classified failure, no retry.
GatewayReturned(result) ==
    /\ svcStage = "AwaitingModel"
    /\ IF result = "raw text" THEN enter("Parsing") ELSE enter(Failed(result))
    /\ UNCHANGED <<svcRequest, svcGatewayCalls, svcServed, outsideService>>

\* Response Parser/Validator: the typed artifact or SchemaViolation.
Parsed(valid) ==
    /\ svcStage = "Parsing"
    /\ IF valid THEN enter("Succeeded") ELSE enter(Failed("SchemaViolation"))
    /\ UNCHANGED <<svcRequest, svcGatewayCalls, svcServed, outsideService>>

(***************************************************************************)
(* sendFeedback and checkAIHealth seen from the wire.  An optional key of  *)
(* a request object is Missing, present with the value undefined, or       *)
(* present with a value; the object spread copies every present key, the   *)
(* undefined ones included, and JSON.stringify leaves out the keys whose   *)
(* value is undefined.                                                     *)
(***************************************************************************)
Missing == "<missing>"
Undefined == "<undefined>"

AdviceTypes == {"daily", "weekly", "alternative"}
RejectionReasons == {"25 dakika cok uzun geliyor"}

FeedbackRequest(technique, liked, rejection_reason, advice_type) ==
    [technique |-> technique, liked |-> liked, rejection_reason |-> rejection_reason,
     advice_type |-> advice_type]

FeedbackRequests ==
    {FeedbackRequest(t, l, rr, at) :
        t \in Advices, l \in BOOLEAN,
        rr \in RejectionReasons \cup {Missing, Undefined},
        at \in AdviceTypes \cup {Missing, Undefined}}

NoFeedbackRequest == FeedbackRequest(Missing, FALSE, Missing, Missing)

\* What a call hands to fetch: the method, whether an Authorization header is set,
\* and the body.
Sent(method, credential, body) ==
    [sent |-> TRUE, method |-> method, credential |-> credential, body |-> body]
NotSent == [sent |-> FALSE, method |-> "", credential |-> FALSE, body |-> NoFeedbackRequest]

\* { key: default, ...request }: the request's key wins whenever it is present.
spread(default, value) == IF value = Missing THEN default ELSE value

\* JSON.stringify of a key: written unless its value is undefined.
stringify(value) == IF value = Undefined THEN Missing ELSE value

\* The body sendFeedback builds: JSON.stringify({ advice_type: 'daily', ...request }).
sendFeedbackBody(request) ==
    [technique |-> request.technique,
     liked |-> request.liked,
     rejection_reason |-> stringify(spread(Missing, request.rejection_reason)),
     advice_type |-> stringify(spread("daily", request.advice_type))]

\* A health response body: not JSON, or a JSON object with these keys (a key the
\* object lacks reads as undefined).
HealthBody(json, status, model, error) ==
    [json |-> json, status |-> status, model |-> model, error |-> error]
HealthBodies ==
    {HealthBody(FALSE, Undefined, Undefined, Undefined),
     HealthBody(TRUE, "healthy", "gemini-flash", Null),
     HealthBody(TRUE, "unhealthy", Null, "API key gecersiz"),
     HealthBody(TRUE, Undefined, Undefined, Undefined)}
NoHealthResponse == [received |-> FALSE, status |-> 0,
                     body |-> HealthBody(FALSE, Undefined, Undefined, Undefined)]

HealthPending == [kind |-> "pending", status |-> Undefined, model |-> Undefined,
                  error |-> Undefined]
HealthResolved(status, model, error) ==
    [kind |-> "resolve", status |-> status, model |-> model, error |-> error]
HealthRejected == [kind |-> "reject", status |-> Undefined, model |-> Undefined,
                   error |-> "SyntaxError"]

\* return response.json(): the promise is returned without being awaited, so its
\* rejection is not caught by the surrounding try/catch.
healthJson(body) ==
    IF body.json THEN HealthResolved(body.status, body.model, body.error)
    ELSE HealthRejected

ClientIdle ==
    /\ fbRequest = NoFeedbackRequest
    /\ fbSent = NotSent
    /\ hcPc = "idle"
    /\ hcSent = NotSent
    /\ hcResponse = NoHealthResponse
    /\ hcResult = HealthPending

\* sendFeedback up to fetch: POST /feedback with the bearer token.
CallSendFeedback(request) ==
    /\ fbRequest = NoFeedbackRequest
    /\ fbRequest' = request
    /\ fbSent' = Sent("POST", TRUE, sendFeedbackBody(request))
    /\ UNCHANGED <<hcPc, hcSent, hcResponse, hcResult, outsideClient>>

\* The call has settled and has been consumed.
SendFeedbackReturn ==
    /\ fbRequest # NoFeedbackRequest
    /\ fbRequest' = NoFeedbackRequest
    /\ fbSent' = NotSent
    /\ UNCHANGED <<hcPc, hcSent, hcResponse, hcResult, outsideClient>>

\* checkAIHealth up to fetch: GET /api/ai/health, no headers.
CallCheckAIHealth ==
    /\ hcPc = "idle"
    /\ hcPc' = "fetch"
    /\ hcSent' = Sent("GET", FALSE, NoFeedbackRequest)
    /\ hcResponse' = NoHealthResponse
    /\ hcResult' = HealthPending
    /\ UNCHANGED <<fbRequest, fbSent, outsideClient>>

\* fetch rejects: the catch block returns the unhealthy status.
HealthFetchRejects ==
    /\ hcPc = "fetch"
    /\ hcPc' = "done"
    /\ hcResult' = HealthResolved("unhealthy", Null, "Servise ulasilamiyor")
    /\ UNCHANGED <<hcSent, hcResponse, fbRequest, fbSent, outsideClient>>

\* fetch resolves: the body is decoded whatever the status is.
HealthFetchResolves(status, body) ==
    /\ hcPc = "fetch"
    /\ hcPc' = "done"
    /\ hcResponse' = [received |-> TRUE, status |-> status, body |-> body]
    /\ hcResult' = healthJson(body)
    /\ UNCHANGED <<hcSent, fbRequest, fbSent, outsideClient>>

HealthReturn ==
    /\ hcPc = "done"
    /\ hcPc' = "idle"
    /\ hcSent' = NotSent
    /\ hcResponse' = NoHealthResponse
    /\ hcResult' = HealthPending
    /\ UNCHANGED <<fbRequest, fbSent, outsideClient>>

(***************************************************************************)
(* PomodoroScreen.  The remaining time is minutes:seconds.tenths; the      *)
(* interval of the timer effect is rebuilt whenever isActive or the        *)
(* remaining time changes, and its callback sees the settings of the       *)
(* render that built it (closure).  A change of a setting alone does not   *)
(* rebuild it.                                                             *)
(***************************************************************************)
MaxTicks == 3
MaxInterval == 3
MaxPomodoros == 2
MaxDurationSteps == 1

QUICK_DURATIONS == {5, 15, 25, 60, 120}
TimerModes == {"WORK", "SHORT_BREAK", "LONG_BREAK"}
BreakModes == {"SHORT_BREAK", "LONG_BREAK"}

Settings(breaks, longBreaks, interval, auto) ==
    [breaksEnabled |-> breaks, longBreaksEnabled |-> longBreaks,
     longBreakInterval |-> interval, autoStart |-> auto]
CurrentSettings == Settings(breaksEnabled, longBreaksEnabled, longBreakInterval, autoStart)

\* The timer effect runs after a render in which isActive or the remaining time
\* changed, and builds the interval when the timer is active; while it is not
\* active there is no interval and the next one starts from the settings then.
Rebuild ==
    closure' = IF isActive' /\ <<isActive', timeVars'>> = <<isActive, timeVars>>
               THEN closure
               ELSE Settings(breaksEnabled', longBreaksEnabled', longBreakInterval', autoStart')

\* The state after construction.
TimerIdle ==
    /\ minutes = 25 /\ seconds = 0 /\ milliseconds = 0
    /\ isActive = FALSE /\ mode = "WORK" /\ isInteractionLocked = FALSE
    /\ completedPomodoros = 0 /\ currentStreak = 0
    /\ workDuration = 25 /\ shortBreakDuration = 5 /\ longBreakDuration = 20
    /\ breaksEnabled = TRUE /\ longBreaksEnabled = TRUE /\ longBreakInterval = 4
    /\ autoStart = TRUE
    /\ closure = Settings(TRUE, TRUE, 4, TRUE)
    /\ autoStartDue = FALSE
    /\ ticks = 0
    /\ forcedToWork = FALSE
    /\ showCustomDuration = FALSE
    /\ durationSteps = 0

\* Remaining times a period is started from here: about to run out, or a full minute.
StartTimes == {<<0, 0, 0>>, <<0, 0, 1>>, <<0, 1, 0>>, <<1, 0, 0>>}

\* A screen that has been in use: settings within their ranges, a period about
\* to run out or just begun, break modes only as handleTimerComplete enters them.
TimerInUse ==
    /\ \E t \in StartTimes : minutes = t[1] /\ seconds = t[2] /\ milliseconds = t[3]
    /\ isActive \in BOOLEAN
    /\ mode \in TimerModes
    /\ isInteractionLocked = FALSE
    /\ completedPomodoros \in 0..MaxPomodoros
    /\ currentStreak = completedPomodoros
    /\ workDuration \in {5, 25}
    /\ shortBreakDuration = 5
    /\ longBreakDuration = 20
    /\ breaksEnabled \in BOOLEAN
    /\ longBreaksEnabled \in BOOLEAN
    /\ longBreakInterval \in 1..MaxInterval
    /\ autoStart \in BOOLEAN
    /\ mode \in BreakModes => (breaksEnabled /\ completedPomodoros >= 1)
    /\ mode = "LONG_BREAK" => longBreaksEnabled
    /\ closure = CurrentSettings
    /\ autoStartDue = FALSE
    /\ ticks = 0
    /\ forcedToWork = FALSE
    /\ showCustomDuration = FALSE
    /\ durationSteps = 0

\* Mutant: the forced return to WORK leaves the timer running.
switchToWorkModeKeepsRunning ==
    /\ mode' = "WORK"
    /\ minutes' = workDuration
    /\ seconds' = 0
    /\ milliseconds' = 0
    /\ isActive' = isActive

switchToWorkMode ==
    /\ mode' = "WORK"
    /\ minutes' = workDuration
    /\ seconds' = 0
    /\ milliseconds' = 0
    /\ isActive' = FALSE

switchToMode(newMode) ==
    /\ mode' = newMode
    /\ minutes' = CASE newMode = "SHORT_BREAK" -> shortBreakDuration
                    [] newMode = "LONG_BREAK" -> longBreakDuration
                    [] OTHER -> workDuration
    /\ seconds' = 0
    /\ milliseconds' = 0

\* Mutant: the reset keeps the mode the timer was in.
resetTimerKeepsMode ==
    /\ isActive' = FALSE
    /\ mode' = mode
    /\ minutes' = workDuration
    /\ seconds' = 0
    /\ milliseconds' = 0

resetTimer ==
    /\ isActive' = FALSE
    /\ mode' = "WORK"
    /\ minutes' = workDuration
    /\ seconds' = 0
    /\ milliseconds' = 0

\* The interval callback while time remains: one tenth less.
Tick ==
    /\ isActive /\ ~autoStartDue
    /\ ticks < MaxTicks
    /\ <<minutes, seconds, milliseconds>> # <<0, 0, 0>>
    /\ IF milliseconds > 0
       THEN milliseconds' = milliseconds - 1 /\ UNCHANGED <<minutes, seconds>>
       ELSE IF seconds > 0
       THEN seconds' = seconds - 1 /\ milliseconds' = 9 /\ UNCHANGED minutes
       ELSE minutes' = minutes - 1 /\ seconds' = 59 /\ milliseconds' = 9
    /\ ticks' = ticks + 1
    /\ UNCHANGED <<isActive, mode, isInteractionLocked, progressVars, durationVars,
                   settingVars, autoStartDue, sheetVars,
                   outsideTimer>>
    /\ forcedToWork' = FALSE
    /\ Rebuild

\* The interval callback at 0:00.0: handleTimerComplete, with the settings of the
\* render that built the interval.
handleTimerComplete ==
    /\ isActive /\ ~autoStartDue
    /\ <<minutes, seconds, milliseconds>> = <<0, 0, 0>>
    /\ IF mode = "WORK"
       THEN /\ completedPomodoros < MaxPomodoros + 1
            /\ completedPomodoros' = completedPomodoros + 1
            /\ currentStreak' = currentStreak + 1
            /\ IF closure.breaksEnabled
               THEN LET isLongBreak ==
                            /\ closure.longBreaksEnabled
                            /\ (completedPomodoros + 1) % closure.longBreakInterval = 0
                    IN  switchToMode(IF isLongBreak THEN "LONG_BREAK" ELSE "SHORT_BREAK")
               ELSE resetTimer
       ELSE /\ switchToMode("WORK")
            /\ UNCHANGED progressVars
    /\ isActive' = (closure.autoStart /\ (mode # "WORK" \/ closure.breaksEnabled))
    /\ autoStartDue' = closure.autoStart
    /\ UNCHANGED <<isInteractionLocked, durationVars, settingVars, ticks, sheetVars,
                   outsideTimer>>
    /\ forcedToWork' = FALSE
    /\ Rebuild

\* The pending setTimeout of handleTimerComplete fires.
AutoStartFires ==
    /\ autoStartDue
    /\ autoStartDue' = FALSE
    /\ isActive' = TRUE
    /\ UNCHANGED <<timeVars, mode, isInteractionLocked, progressVars, durationVars,
                   settingVars, ticks, sheetVars,
                   outsideTimer>>
    /\ forcedToWork' = FALSE
    /\ Rebuild

toggleTimer ==
    /\ ~showCustomDuration
    /\ ~isInteractionLocked
    /\ isActive' = ~isActive
    /\ UNCHANGED <<timeVars, mode, isInteractionLocked, progressVars, durationVars,
                   settingVars, autoStartDue, ticks, sheetVars,
                   outsideTimer>>
    /\ forcedToWork' = FALSE
    /\ Rebuild

\* handlePressIn held for 1.5 s: resetTimer and the interaction lock.
LongPressReset ==
    /\ ~showCustomDuration
    /\ ~isInteractionLocked
    /\ resetTimer
    /\ isInteractionLocked' = TRUE
    /\ UNCHANGED <<progressVars, durationVars, settingVars, autoStartDue, ticks,
                   sheetVars,
                   outsideTimer>>
    /\ forcedToWork' = FALSE
    /\ Rebuild

\* The 2 s timeout of the lock.
Unlock ==
    /\ isInteractionLocked
    /\ isInteractionLocked' = FALSE
    /\ UNCHANGED <<timeVars, isActive, mode, progressVars, durationVars, settingVars,
                   closure, autoStartDue, ticks, sheetVars,
                   outsideTimer>>
    /\ forcedToWork' = FALSE

\* selectDuration returns at once while the interaction lock is on.
selectDuration(duration) ==
    IF isInteractionLocked
    THEN UNCHANGED <<workDuration, mode, timeVars, isActive>>
    ELSE /\ workDuration' = duration
         /\ mode' = "WORK"
         /\ minutes' = duration
         /\ seconds' = 0
         /\ milliseconds' = 0
         /\ isActive' = FALSE

\* A quick-duration button, shown while the timer is stopped in WORK mode.
PressQuickDuration(duration) ==
    /\ ~showCustomDuration
    /\ ~isActive /\ mode = "WORK"
    /\ selectDuration(duration)
    /\ UNCHANGED <<isInteractionLocked, progressVars, shortBreakDuration, longBreakDuration,
                   settingVars, autoStartDue, ticks, sheetVars, outsideTimer>>
    /\ forcedToWork' = FALSE
    /\ Rebuild

\* The + button next to the quick durations opens the custom-duration modal.
OpenCustomDuration ==
    /\ ~showCustomDuration
    /\ ~isActive /\ mode = "WORK"
    /\ showCustomDuration' = TRUE
    /\ UNCHANGED <<timeVars, isActive, mode, isInteractionLocked, progressVars, durationVars,
                   settingVars, closure, autoStartDue, ticks, durationSteps, outsideTimer>>
    /\ forcedToWork' = FALSE

\* The Iptal button of the modal.
CancelCustomDuration ==
    /\ showCustomDuration
    /\ showCustomDuration' = FALSE
    /\ UNCHANGED <<timeVars, isActive, mode, isInteractionLocked, progressVars, durationVars,
                   settingVars, closure, autoStartDue, ticks, durationSteps, outsideTimer>>
    /\ forcedToWork' = FALSE

\* What the text field of the modal can hold: at most three characters
\* (maxLength = 3), typed, pasted or from a hardware keyboard.
CustomInputs ==
    { <<>>, <<"0">>, <<"1">>, <<"7", "2", "0">>, <<"7", "2", "1">>, <<"a", "b", "c">>,
      <<"5", "a">>, <<"1", ".", "5">>, <<"-", "5">>, <<"0", "x", "F">>, <<" ", "6", "0">> }

DigitValue(c) ==
    CASE c = "0" -> 0 [] c = "1" -> 1 [] c = "2" -> 2 [] c = "3" -> 3 [] c = "4" -> 4
      [] c = "5" -> 5 [] c = "6" -> 6 [] c = "7" -> 7 [] c = "8" -> 8 [] c = "9" -> 9
      [] c \in {"a", "A"} -> 10 [] c \in {"b", "B"} -> 11 [] c \in {"c", "C"} -> 12
      [] c \in {"d", "D"} -> 13 [] c \in {"e", "E"} -> 14 [] c \in {"f", "F"} -> 15
      [] OTHER -> 36

NaN == [nan |-> TRUE, value |-> 0]
Number(n) == [nan |-> FALSE, value |-> n]

RECURSIVE TrimStart(_)
TrimStart(s) == IF s # <<>> /\ Head(s) = " " THEN TrimStart(Tail(s)) ELSE s

\* The longest prefix of digits of the radix, read as a number; NaN without one.
RECURSIVE ParseDigits(_, _, _)
ParseDigits(s, radix, acc) ==
    IF s # <<>> /\ DigitValue(Head(s)) < radix
    THEN ParseDigits(Tail(s), radix, Number((IF acc.nan THEN 0 ELSE acc.value * radix)
                                            + DigitValue(Head(s))))
    ELSE acc

\* parseInt(string) of JavaScript: leading blanks and a sign are skipped, 0x
\* selects radix 16, and what follows the digits is ignored.
parseInt(input) ==
    LET trimmed == TrimStart(input)
        signed == trimmed # <<>> /\ Head(trimmed) \in {"+", "-"}
        unsigned == IF signed THEN Tail(trimmed) ELSE trimmed
        hex == Len(unsigned) >= 2 /\ unsigned[1] = "0" /\ unsigned[2] \in {"x", "X"}
        parsed == IF hex THEN ParseDigits(Tail(Tail(unsigned)), 16, NaN)
                  ELSE ParseDigits(unsigned, 10, NaN)
    IN  IF parsed.nan THEN NaN
        ELSE IF signed /\ Head(trimmed) = "-" THEN Number(0 - parsed.value)
        ELSE parsed

\* The Ayarla button of the modal.
setCustomTime(input) ==
    /\ showCustomDuration
    /\ LET duration == parseInt(input)
       IN  IF ~duration.nan /\ duration.value >= 1 /\ duration.value <= 720
           THEN /\ selectDuration(duration.value)
                /\ showCustomDuration' = FALSE
           ELSE UNCHANGED <<workDuration, mode, timeVars, isActive, showCustomDuration>>
    /\ UNCHANGED <<isInteractionLocked, progressVars, shortBreakDuration, longBreakDuration,
                   settingVars, autoStartDue, ticks, durationSteps, outsideTimer>>
    /\ forcedToWork' = FALSE
    /\ Rebuild

\* The - and + buttons of the short break, shown with breaks on.
SetShortBreakDuration(up) ==
    /\ ~showCustomDuration
    /\ breaksEnabled
    /\ durationSteps < MaxDurationSteps
    /\ durationSteps' = durationSteps + 1
    /\ shortBreakDuration' =
            IF up THEN (IF shortBreakDuration + 1 < 10 THEN shortBreakDuration + 1 ELSE 10)
            ELSE (IF shortBreakDuration - 1 > 1 THEN shortBreakDuration - 1 ELSE 1)
    /\ UNCHANGED <<timeVars, isActive, mode, isInteractionLocked, progressVars, workDuration,
                   longBreakDuration, settingVars, closure, autoStartDue, ticks,
                   showCustomDuration, outsideTimer>>
    /\ forcedToWork' = FALSE

\* The - and + buttons of the long break, shown with long breaks on.
SetLongBreakDuration(up) ==
    /\ ~showCustomDuration
    /\ longBreaksEnabled
    /\ durationSteps < MaxDurationSteps
    /\ durationSteps' = durationSteps + 1
    /\ longBreakDuration' =
            IF up THEN (IF longBreakDuration + 5 < 120 THEN longBreakDuration + 5 ELSE 120)
            ELSE (IF longBreakDuration - 5 > 10 THEN longBreakDuration - 5 ELSE 10)
    /\ UNCHANGED <<timeVars, isActive, mode, isInteractionLocked, progressVars, workDuration,
                   shortBreakDuration, settingVars, closure, autoStartDue, ticks,
                   showCustomDuration, outsideTimer>>
    /\ forcedToWork' = FALSE

\* The breaks switch, with the effect on [breaksEnabled].
SetBreaksEnabled(value) ==
    /\ ~showCustomDuration
    /\ value # breaksEnabled
    /\ breaksEnabled' = value
    /\ IF ~value /\ mode \in BreakModes
       THEN switchToWorkMode
       ELSE UNCHANGED <<timeVars, isActive, mode>>
    /\ UNCHANGED <<isInteractionLocked, progressVars, durationVars, longBreaksEnabled,
                   longBreakInterval, autoStart, autoStartDue, ticks, sheetVars,
                   outsideTimer>>
    /\ forcedToWork' = (~value /\ mode \in BreakModes)
    /\ Rebuild

\* The long-breaks switch, with the effect on [longBreaksEnabled].
SetLongBreaksEnabled(value) ==
    /\ ~showCustomDuration
    /\ value # longBreaksEnabled
    /\ longBreaksEnabled' = value
    /\ IF ~value /\ mode = "LONG_BREAK"
       THEN switchToWorkMode
       ELSE UNCHANGED <<timeVars, isActive, mode>>
    /\ UNCHANGED <<isInteractionLocked, progressVars, durationVars, breaksEnabled,
                   longBreakInterval, autoStart, autoStartDue, ticks, sheetVars,
                   outsideTimer>>
    /\ forcedToWork' = (~value /\ mode = "LONG_BREAK")
    /\ Rebuild

\* The auto-start switch.
SetAutoStart(value) ==
    /\ ~showCustomDuration
    /\ value # autoStart
    /\ autoStart' = value
    /\ UNCHANGED <<timeVars, isActive, mode, isInteractionLocked, progressVars, durationVars,
                   breaksEnabled, longBreaksEnabled, longBreakInterval, autoStartDue, ticks,
                   sheetVars,
                   outsideTimer>>
    /\ forcedToWork' = FALSE
    /\ Rebuild

\* The - and + buttons of the long-break interval, shown with long breaks on.
SetLongBreakInterval(up) ==
    /\ ~showCustomDuration
    /\ longBreaksEnabled
    /\ IF up
       THEN longBreakInterval < MaxInterval /\ longBreakInterval' = longBreakInterval + 1
       ELSE longBreakInterval' = IF longBreakInterval - 1 > 1 THEN longBreakInterval - 1 ELSE 1
    /\ longBreakInterval' # longBreakInterval
    /\ UNCHANGED <<timeVars, isActive, mode, isInteractionLocked, progressVars, durationVars,
                   breaksEnabled, longBreaksEnabled, autoStart, autoStartDue, ticks,
                   sheetVars,
                   outsideTimer>>
    /\ forcedToWork' = FALSE
    /\ Rebuild

(***************************************************************************)
(* AuthProvider and the route guard of RootLayoutNav.  The guard is an     *)
(* effect on [isAuthenticated, isLoading, user, segments]; router.replace  *)
(* changes segments, so the effect runs once more after a redirect.        *)
(***************************************************************************)
Segments == {"(auth)", "complete-profile", "(tabs)", "modal"}
NoRedirect == "none"

\* A user as the guard reads it: is_profile_complete is all it looks at; a user
\* object without the field reads as not complete (!undefined).
AuthUser(complete) == [present |-> TRUE, is_profile_complete |-> complete]
NoUser == [present |-> FALSE, is_profile_complete |-> FALSE]
AuthUsers == {AuthUser(c) : c \in BOOLEAN}

\* JSON.stringify(userData) and JSON.parse(storedUser), over the texts the user
\* key can hold; a text that is not JSON makes JSON.parse throw.
UserTexts ==
    {"{\"is_profile_complete\":true}", "{\"is_profile_complete\":false}", "{}", "null",
     "{\"is_profile_"}
JSONstringify(u) ==
    IF ~u.present THEN "null"
    ELSE IF u.is_profile_complete THEN "{\"is_profile_complete\":true}"
    ELSE "{\"is_profile_complete\":false}"
JSONparseThrows(text) == text = "{\"is_profile_"
JSONparse(text) ==
    CASE text = "{\"is_profile_complete\":true}" -> AuthUser(TRUE)
      [] text = "{\"is_profile_complete\":false}" -> AuthUser(FALSE)
      [] text = "{}" -> AuthUser(FALSE)
      [] OTHER -> NoUser

\* AsyncStorage: a key is absent (getItem resolves to null) or holds a text.
Absent == "<absent>"
Storage(t, u) == [token |-> t, user |-> u]
StoredAtStart ==
    {Storage(Absent, Absent), Storage(Token, Absent)} \cup {Storage(Token, u) : u \in UserTexts}

isAuthenticated == authToken # Null /\ authUser.present

\* Mutant: the guard leaves an unauthenticated user where they are.
guardTargetKeepsGuests(authenticated, u, segment) ==
    LET inAuthGroup == segment = "(auth)"
        inCompleteProfile == segment = "complete-profile"
    IN  IF ~authenticated
        THEN NoRedirect
        ELSE IF u.present /\ ~u.is_profile_complete
        THEN (IF ~inCompleteProfile THEN "complete-profile" ELSE NoRedirect)
        ELSE (IF inAuthGroup \/ inCompleteProfile THEN "(tabs)" ELSE NoRedirect)

\* The body of the guard effect once loading is over: segments[0] of the route
\* it replaces the current one with, or NoRedirect.
guardTarget(authenticated, u, segment) ==
    LET inAuthGroup == segment = "(auth)"
        inCompleteProfile == segment = "complete-profile"
    IN  IF ~authenticated
        THEN (IF ~inAuthGroup THEN "(auth)" ELSE NoRedirect)
        ELSE IF u.present /\ ~u.is_profile_complete
        THEN (IF ~inCompleteProfile THEN "complete-profile" ELSE NoRedirect)
        ELSE (IF inAuthGroup \/ inCompleteProfile THEN "(tabs)" ELSE NoRedirect)

\* The state after construction: loading, nobody signed in, the root route.
GuardIdle ==
    /\ isLoading = TRUE
    /\ authToken = Null
    /\ authUser = NoUser
    /\ storage = Storage(Absent, Absent)
    /\ segments = "(tabs)"
    /\ guardDue = TRUE
    /\ redirected = NoRedirect

\* The app opens on any route (the root, or a link) with whatever an earlier
\* run left in AsyncStorage.
GuardStart ==
    /\ isLoading = TRUE
    /\ authToken = Null
    /\ authUser = NoUser
    /\ storage \in StoredAtStart
    /\ segments \in Segments
    /\ guardDue = TRUE
    /\ redirected = NoRedirect

\* loadStoredAuth: both keys are read; with both present the token is set and
\* then the user parsed and set; an error is logged; loading ends in any case.
loadStoredAuth(readFails) ==
    /\ isLoading
    /\ IF readFails \/ storage.token = Absent \/ storage.user = Absent
       THEN UNCHANGED <<authToken, authUser>>
       ELSE /\ authToken' = storage.token
            /\ authUser' = IF JSONparseThrows(storage.user) THEN authUser
                           ELSE JSONparse(storage.user)
    /\ isLoading' = FALSE
    /\ guardDue' = TRUE
    /\ UNCHANGED <<storage, segments, redirected, outsideGuard>>

\* One run of the guard effect.
RouteGuard ==
    /\ guardDue
    /\ LET target == IF isLoading THEN NoRedirect
                     ELSE guardTarget(isAuthenticated, authUser, segments)
       IN  /\ segments' = IF target = NoRedirect THEN segments ELSE target
           /\ redirected' = IF target = NoRedirect THEN redirected ELSE target
           /\ guardDue' = (target # NoRedirect)
    /\ UNCHANGED <<isLoading, authToken, authUser, storage, outsideGuard>>

\* login of the AuthProvider, called by the screens of the auth group: the two
\* keys are written, then token and user set; a failed write throws before.
login(userData, failedWrite) ==
    /\ ~isLoading
    /\ segments = "(auth)"
    /\ storage' = CASE failedWrite = 1 -> storage
                    [] failedWrite = 2 -> Storage(Token, storage.user)
                    [] OTHER -> Storage(Token, JSONstringify(userData))
    /\ IF failedWrite = 0
       THEN authToken' = Token /\ authUser' = userData /\ guardDue' = TRUE
       ELSE UNCHANGED <<authToken, authUser, guardDue>>
    /\ redirected' = NoRedirect
    /\ UNCHANGED <<isLoading, segments, outsideGuard>>

\* logout of the AuthProvider: token and user are cleared when multiRemove
\* resolved; when it rejected the error is logged and the session stays.
authLogout(removed) ==
    /\ ~isLoading
    /\ isAuthenticated
    /\ IF removed
       THEN /\ storage' = Storage(Absent, Absent)
            /\ authToken' = Null
            /\ authUser' = NoUser
            /\ guardDue' = TRUE
       ELSE UNCHANGED <<storage, authToken, authUser, guardDue>>
    /\ redirected' = NoRedirect
    /\ UNCHANGED <<isLoading, segments, outsideGuard>>

\* updateUser of the AuthProvider, called by the screens of a signed-in user.
updateUser(updatedUser) ==
    /\ ~isLoading
    /\ isAuthenticated
    /\ authUser' = updatedUser
    /\ storage' = Storage(storage.token, JSONstringify(updatedUser))
    /\ guardDue' = (guardDue \/ updatedUser # authUser)
    /\ redirected' = NoRedirect
    /\ UNCHANGED <<isLoading, authToken, segments, outsideGuard>>

\* A screen or a link navigates by itself, also in the handler that has just
\* called login, before the guard effect has run.
Navigate(segment) ==
    /\ ~isLoading
    /\ segment # segments
    /\ segments' = segment
    /\ guardDue' = TRUE
    /\ redirected' = NoRedirect
    /\ UNCHANGED <<isLoading, authToken, authUser, storage, outsideGuard>>

(***************************************************************************)
(* RegisterScreen.  Texts are sequences of characters, so that trim, the   *)
(* email pattern and the length test are computed on them.                 *)
(***************************************************************************)
MaxAttempts == 2

RECURSIVE TrimEnd(_)
TrimEnd(s) == IF s # <<>> /\ s[Len(s)] = " " THEN TrimEnd(SubSeq(s, 1, Len(s) - 1)) ELSE s
trim(s) == TrimEnd(TrimStart(s))

\* [^\s@]+ : one or more characters, none of them a blank or an @.
PlainRun(s) == s # <<>> /\ \A i \in 1..Len(s) : s[i] \notin {" ", "@"}

\* /^[^\s@]+@[^\s@]+\.[^\s@]+$/.test(email)
validateEmail(text) ==
    \E at \in 1..Len(text) : \E dot \in 1..Len(text) :
        /\ at < dot
        /\ text[at] = "@" /\ text[dot] = "."
        /\ PlainRun(SubSeq(text, 1, at - 1))
        /\ PlainRun(SubSeq(text, at + 1, dot - 1))
        /\ PlainRun(SubSeq(text, dot + 1, Len(text)))

NoAlert == "none"

\* Mutant: the confirmation is not compared with the password.
validationErrorSkipsConfirmation(name, mail, pass, confirm) ==
    IF trim(name) = <<>> THEN "Hata"
    ELSE IF trim(mail) = <<>> THEN "Hata"
    ELSE IF ~validateEmail(trim(mail)) THEN "Hata"
    ELSE IF Len(pass) < 6 THEN "Hata"
    ELSE NoAlert

\* The validations of handleRegister, in order: the title of the alert of the
\* first one that fails, or NoAlert.
validationError(name, mail, pass, confirm) ==
    IF trim(name) = <<>> THEN "Hata"
    ELSE IF trim(mail) = <<>> THEN "Hata"
    ELSE IF ~validateEmail(trim(mail)) THEN "Hata"
    ELSE IF Len(pass) < 6 THEN "Hata"
    ELSE IF pass # confirm THEN "Hata"
    ELSE NoAlert

\* What the user can have typed.
NameTexts == {<<>>, <<" ", " ">>, <<"A", "l", "i", " ">>}
EmailTexts ==
    { <<>>, <<" ">>, <<"a", "@", "b", ".", "c">>, <<" ", "a", "@", "b", ".", "c", " ">>,
      <<"a", "@", "b">>, <<"a", "b", ".", "c">>, <<"a", " ", "@", "b", ".", "c">>,
      <<"a", "@", "@", "b", ".", "c">>, <<"a", "@", "b", ".", "c", ".", "d">>,
      <<"a", "@", ".", "c">>, <<"a", ".", "b", "@", "c">> }
PasswordTexts ==
    { <<"1", "2", "3", "4", "5">>, <<"1", "2", "3", "4", "5", "6">>,
      <<" ", " ", " ", " ", " ", " ", " ">> }

Request(op, mail) == [op |-> op, email |-> mail]

\* The state after construction: an empty form, nothing sent.
RegisterIdle ==
    /\ fullName = <<>> /\ email = <<>> /\ password = <<>> /\ confirmPassword = <<>>
    /\ registerLoading = FALSE
    /\ regPc = "idle"
    /\ regSent = <<>>
    /\ regResults = <<>>
    /\ regStored = FALSE
    /\ regAlert = NoAlert
    /\ regAttempts = 0

\* The form filled in, the button not yet pressed.
RegisterFilled ==
    /\ fullName \in NameTexts
    /\ email \in EmailTexts
    /\ password \in PasswordTexts
    /\ confirmPassword \in PasswordTexts
    /\ registerLoading = FALSE
    /\ regPc = "idle"
    /\ regSent = <<>>
    /\ regResults = <<>>
    /\ regStored = FALSE
    /\ regAlert = NoAlert
    /\ regAttempts = 0

\* The catch and finally blocks of handleRegister.
registerFailed(result) ==
    /\ regResults' = Append(regResults, result)
    /\ regAlert' = "Kayit Basarisiz"
    /\ registerLoading' = FALSE
    /\ regPc' = "idle"
    /\ UNCHANGED <<formVars, regSent, regStored, regAttempts, outsideRegister>>

\* handleRegister up to its first await; the button is disabled while loading.
handleRegister ==
    /\ regPc = "idle" /\ ~registerLoading
    /\ regAttempts < MaxAttempts
    /\ regAttempts' = regAttempts + 1
    /\ LET error == validationError(fullName, email, password, confirmPassword)
       IN  IF error # NoAlert
           THEN /\ regAlert' = error
                /\ regSent' = <<>>
                /\ UNCHANGED <<registerLoading, regPc>>
           ELSE /\ registerLoading' = TRUE
                /\ regSent' = <<Request("register", trim(email))>>
                /\ regPc' = "register"
                /\ regAlert' = NoAlert
    /\ regResults' = <<>>
    /\ UNCHANGED <<formVars, regStored, outsideRegister>>

\* registerUser settles; on success loginUser is called.
RegisterReturns(ok) ==
    /\ regPc = "register"
    /\ IF ok
       THEN /\ regResults' = Append(regResults, "ok")
            /\ regSent' = Append(regSent, Request("login", trim(email)))
            /\ regPc' = "login"
            /\ UNCHANGED <<formVars, registerLoading, regStored, regAlert, regAttempts,
                           outsideRegister>>
       ELSE registerFailed("failed")

\* loginUser settles; on success the token is decoded, and getUser is called
\* when it decodes.
LoginReturns(ok, decodes) ==
    /\ regPc = "login"
    /\ IF ok /\ decodes
       THEN /\ regResults' = Append(regResults, "ok")
            /\ regSent' = Append(regSent, Request("getUser", trim(email)))
            /\ regPc' = "getUser"
            /\ UNCHANGED <<formVars, registerLoading, regStored, regAlert, regAttempts,
                           outsideRegister>>
       ELSE registerFailed(IF ok THEN "ok" ELSE "failed")

\* getUser settles; on success login of the auth context is called.
GetUserReturns(ok) ==
    /\ regPc = "getUser"
    /\ IF ok
       THEN /\ regResults' = Append(regResults, "ok")
            /\ regPc' = "store"
            /\ UNCHANGED <<formVars, registerLoading, regSent, regStored, regAlert,
                           regAttempts, outsideRegister>>
       ELSE registerFailed("failed")

\* login of the auth context settles; on success the screen is replaced by
\* complete-profile.
ContextLoginReturns(ok) ==
    /\ regPc = "store"
    /\ IF ok
       THEN /\ regStored' = TRUE
            /\ registerLoading' = FALSE
            /\ regPc' = "done"
            /\ UNCHANGED <<formVars, regSent, regResults, regAlert, regAttempts,
                           outsideRegister>>
       ELSE /\ regAlert' = "Kayit Basarisiz"
            /\ registerLoading' = FALSE
            /\ regPc' = "idle"
            /\ UNCHANGED <<formVars, regSent, regResults, regStored, regAttempts,
                           outsideRegister>>

(***************************************************************************)
(* Specifications                                                          *)
(***************************************************************************)
TriggerInit == MtInit /\ ApiIdle /\ CoachInit /\ ServiceIdle /\ ClientIdle /\ GuardIdle /\ RegisterIdle /\ TimerIdle
TriggerNext == CallDetect
SpecTrigger == TriggerInit /\ [][TriggerNext]_vars

ApiInit ==
    ApiIdle /\ mtInput = MtIdle /\ mtResult = NotCalled /\ CoachInit /\ ServiceIdle /\ ClientIdle /\ GuardIdle /\ RegisterIdle
        /\ TimerIdle
ApiNext ==
    \/ \E op \in ApiOps : CallApi(op)
    \/ FetchRejects
    \/ \E status \in Statuses, body \in Bodies : FetchResolves(status, body)
    \/ ApiReturn
SpecApi == ApiInit /\ [][ApiNext]_vars

CoachSpecInit ==
    CoachInit /\ ApiIdle /\ mtInput = MtIdle /\ mtResult = NotCalled /\ ServiceIdle /\ ClientIdle /\ GuardIdle /\ RegisterIdle
        /\ TimerIdle
CoachNext ==
    \/ FocusEffect
    \/ PressRetry
    \/ PressDifferentAdvice
    \/ PullToRefresh
    \/ \E liked \in BOOLEAN : PressFeedback(liked)
    \/ PressMotivation
    \/ PressWeeklyReport
    \/ \E r \in inflight : \E net \in CoachNet(r) : CompleteDailyAdvice(r, net)
    \/ \E r \in inflight : \E net \in CoachNet(r) : CompleteFeedback(r, net)
    \/ \E r \in inflight : \E net \in CoachNet(r) : CompleteMotivation(r, net)
    \/ \E r \in inflight : \E net \in CoachNet(r) : CompleteWeeklyReport(r, net)
    \/ ConfirmSessionExpired
    \/ \E removed \in BOOLEAN : logout(removed)
    \/ DismissErrorAlert
    \/ Blur
    \/ Focus
SpecCoach == CoachSpecInit /\ [][CoachNext]_vars

ServiceInit ==
    ServiceIdle /\ ApiIdle /\ mtInput = MtIdle /\ mtResult = NotCalled /\ CoachInit /\ ClientIdle /\ GuardIdle /\ RegisterIdle
        /\ TimerIdle
ServiceNext ==
    \/ \E op \in ServiceOps : \E args \in ArgsOf(op) : ClientCall(op, args)
    \/ StartAssembling
    \/ \E available \in BOOLEAN : Assembled(available)
    \/ Prompted
    \/ \E result \in GatewayResults : GatewayReturned(result)
    \/ \E valid \in BOOLEAN : Parsed(valid)
SpecService == ServiceInit /\ [][ServiceNext]_vars

ClientInit ==
    ClientIdle /\ GuardIdle /\ RegisterIdle /\ ApiIdle /\ mtInput = MtIdle /\ mtResult = NotCalled /\ CoachInit /\ ServiceIdle
        /\ TimerIdle
ClientNext ==
    \/ \E request \in FeedbackRequests : CallSendFeedback(request)
    \/ SendFeedbackReturn
    \/ CallCheckAIHealth
    \/ HealthFetchRejects
    \/ \E status \in Statuses, body \in HealthBodies : HealthFetchResolves(status, body)
    \/ HealthReturn
SpecClient == ClientInit /\ [][ClientNext]_vars

TimerInit ==
    TimerInUse /\ ApiIdle /\ mtInput = MtIdle /\ mtResult = NotCalled /\ CoachInit
        /\ ServiceIdle /\ ClientIdle /\ GuardIdle /\ RegisterIdle
TimerNext ==
    \/ Tick
    \/ handleTimerComplete
    \/ AutoStartFires
    \/ toggleTimer
    \/ LongPressReset
    \/ Unlock
    \/ \E duration \in QUICK_DURATIONS : PressQuickDuration(duration)
    \/ OpenCustomDuration
    \/ CancelCustomDuration
    \/ \E input \in CustomInputs : setCustomTime(input)
    \/ \E value \in BOOLEAN : SetBreaksEnabled(value)
    \/ \E value \in BOOLEAN : SetLongBreaksEnabled(value)
    \/ \E value \in BOOLEAN : SetAutoStart(value)
    \/ \E up \in BOOLEAN : SetLongBreakInterval(up)
SpecTimer == TimerInit /\ [][TimerNext]_vars

\* The timer with the buttons of the break durations and without the three
\* switches, which are left on so that every duration button is shown.  The
\* periods start with the break durations at the ends of their ranges, where
\* the buttons clamp.
DurationsInUse ==
    /\ minutes = 0 /\ seconds = 0 /\ milliseconds = 1
    /\ isActive \in BOOLEAN
    /\ mode \in TimerModes
    /\ isInteractionLocked = FALSE
    /\ completedPomodoros = 1
    /\ currentStreak = completedPomodoros
    /\ workDuration = 25
    /\ \E d \in {<<1, 10>>, <<10, 120>>} : shortBreakDuration = d[1] /\ longBreakDuration = d[2]
    /\ breaksEnabled = TRUE
    /\ longBreaksEnabled = TRUE
    /\ longBreakInterval = 1
    /\ autoStart = TRUE
    /\ closure = CurrentSettings
    /\ autoStartDue = FALSE
    /\ ticks = 0
    /\ forcedToWork = FALSE
    /\ showCustomDuration = FALSE
    /\ durationSteps = 0
DurationsInit ==
    DurationsInUse /\ ApiIdle /\ mtInput = MtIdle /\ mtResult = NotCalled /\ CoachInit
        /\ ServiceIdle /\ ClientIdle /\ GuardIdle /\ RegisterIdle
DurationsNext ==
    \/ Tick
    \/ handleTimerComplete
    \/ AutoStartFires
    \/ toggleTimer
    \/ LongPressReset
    \/ Unlock
    \/ \E duration \in QUICK_DURATIONS : PressQuickDuration(duration)
    \/ OpenCustomDuration
    \/ CancelCustomDuration
    \/ \E input \in CustomInputs : setCustomTime(input)
    \/ \E up \in BOOLEAN : SetLongBreakInterval(up)
    \/ \E up \in BOOLEAN : SetShortBreakDuration(up)
    \/ \E up \in BOOLEAN : SetLongBreakDuration(up)
SpecDurations == DurationsInit /\ [][DurationsNext]_vars

GuardInit ==
    GuardStart /\ ApiIdle /\ mtInput = MtIdle /\ mtResult = NotCalled /\ CoachInit
        /\ ServiceIdle /\ ClientIdle /\ TimerIdle /\ RegisterIdle
GuardNext ==
    \/ \E readFails \in BOOLEAN : loadStoredAuth(readFails)
    \/ RouteGuard
    \/ \E userData \in AuthUsers, failedWrite \in 0..2 : login(userData, failedWrite)
    \/ \E removed \in BOOLEAN : authLogout(removed)
    \/ \E updatedUser \in AuthUsers : updateUser(updatedUser)
    \/ \E segment \in Segments : Navigate(segment)
SpecGuard == GuardInit /\ [][GuardNext]_vars

RegisterInit ==
    RegisterFilled /\ ApiIdle /\ mtInput = MtIdle /\ mtResult = NotCalled /\ CoachInit
        /\ ServiceIdle /\ ClientIdle /\ TimerIdle /\ GuardIdle
RegisterNext ==
    \/ handleRegister
    \/ \E ok \in BOOLEAN : RegisterReturns(ok)
    \/ \E ok \in BOOLEAN, decodes \in BOOLEAN : LoginReturns(ok, decodes)
    \/ \E ok \in BOOLEAN : GetUserReturns(ok)
    \/ \E ok \in BOOLEAN : ContextLoginReturns(ok)
SpecRegister == RegisterInit /\ [][RegisterNext]_vars

(***************************************************************************)
(* Claims about detectMotivationTrigger (SpecTrigger)                      *)
(***************************************************************************)
MtCalled == mtResult # NotCalled
MtIs(c, k, m, t) ==
    mtInput = [cancelledToday |-> c, completedToday |-> k, minutesToday |-> m,
               dailyTargetMinutes |-> t]

\* C1: the result is 'high_cancel_rate' if and only if cancelled+completed >= 2
\* and cancelled/(cancelled+completed) > 0.5, whatever minutes and target are;
\* in particular (2,0,10,60) gives high_cancel_rate.
C1_HighCancelRateIff ==
    MtCalled =>
        LET c == mtInput.cancelledToday
            k == mtInput.completedToday
        IN  /\ (mtResult = "high_cancel_rate") <=> (c + k >= 2 /\ 2 * c > c + k)
            /\ MtIs(2, 0, 10, 60) => mtResult = "high_cancel_rate"

\* C1 witness: the cancel-rate check wins although the daily goal is reached.
C1_Witness ==
    /\ mtResult = "high_cancel_rate"
    /\ mtInput.dailyTargetMinutes > 0
    /\ mtInput.minutesToday >= mtInput.dailyTargetMinutes

\* C2: without the high-cancel condition the result is 'goal_achieved' if
\* progressRate >= 1.0, else 'low_performance' if progressRate < 0.3 and
\* minutesToday > 0, else null, with progressRate = minutes/target for target > 0
\* and 0 otherwise; (0,1,60,60), (0,1,10,60) and (0,0,0,60) give goal_achieved,
\* low_performance and null.
C2_ProgressBranches ==
    MtCalled =>
        LET c == mtInput.cancelledToday
            k == mtInput.completedToday
            m == mtInput.minutesToday
            t == mtInput.dailyTargetMinutes
            highCancel == c + k >= 2 /\ 2 * c > c + k
            goal == t > 0 /\ m >= t
            low == m > 0 /\ (t = 0 \/ 10 * m < 3 * t)
        IN  /\ ~highCancel =>
                mtResult = IF goal THEN "goal_achieved"
                           ELSE IF low THEN "low_performance"
                           ELSE Null
            /\ MtIs(0, 1, 60, 60) => mtResult = "goal_achieved"
            /\ MtIs(0, 1, 10, 60) => mtResult = "low_performance"
            /\ MtIs(0, 0, 0, 60) => mtResult = Null

\* C2 witness: the documented low-performance example has been evaluated.
C2_Witness == MtIs(0, 1, 10, 60) /\ mtResult = "low_performance"

\* C3: detectMotivationTrigger(2, 8, 120, 180) returns 'high_cancel_rate', as the
\* documentation example of the function states.
C3_DocExampleHighCancel ==
    (MtCalled /\ MtIs(2, 8, 120, 180)) => mtResult = "high_cancel_rate"

(***************************************************************************)
(* Claims about aiCoachFetch and the API functions (SpecApi)               *)
(***************************************************************************)
ApiSettled == apiPc = "done"

\* C4: for a non-2xx response the class and statusCode of the thrown error are
\* determined by the status alone (401 AICoachAuthError, 429 AICoachRateLimitError,
\* 503 AICoachUnavailableError, anything else a plain AICoachError carrying the
\* status); a 2xx response never produces an AICoachError.
C4_ErrorClassByStatus ==
    (ApiSettled /\ apiResponse.received) =>
        LET status == apiResponse.status
            expected == CASE status = 401 -> "AICoachAuthError"
                          [] status = 429 -> "AICoachRateLimitError"
                          [] status = 503 -> "AICoachUnavailableError"
                          [] OTHER -> "AICoachError"
        IN  IF status \in 200..299
            THEN ~(apiOutcome.kind = "throw" /\ apiOutcome.cls \in AICoachClasses)
            ELSE /\ apiOutcome.kind = "throw"
                 /\ apiOutcome.cls = expected
                 /\ apiOutcome.statusCode = status

\* C4 witness: a 429 response has been turned into an AICoachRateLimitError.
C4_Witness ==
    /\ ApiSettled
    /\ apiResponse.status = 429
    /\ apiOutcome.cls = "AICoachRateLimitError"

\* C5: the user-facing message of the thrown error depends on the response body
\* only for status 400, where it is the body's detail text; for every other status
\* any two bodies give the same message, and it is never the server's detail.
C5_UserMessageIgnoresBody ==
    (ApiSettled /\ apiResponse.received /\ apiOutcome.kind = "throw") =>
        LET status == apiResponse.status
            body == apiResponse.body
            shown == getAIErrorMessage(apiOutcome)
        IN  /\ (status = 400 /\ body.json /\ body.detail # "") => shown = body.detail
            /\ status # 400 =>
                /\ shown \notin Details
                /\ \A other \in Bodies :
                       aiCoachFetch(status, other).kind = "throw" =>
                           getAIErrorMessage(aiCoachFetch(status, other)) = shown

\* C5 witness: a 502 whose body carries a detail text has been turned into an error.
C5_Witness ==
    /\ ApiSettled
    /\ apiResponse.status = 502
    /\ apiResponse.body.detail \in Details
    /\ apiOutcome.kind = "throw"

\* C8: a call of getDailyAdvice, getWeeklyReport, getMotivation, sendFeedback or
\* getSessionSummary performs exactly one outbound request, whether it ends in
\* success or failure; a failure settles the call without a second attempt.
C8_OneRequestPerCall ==
    /\ apiPc \in {"fetch", "done"} => apiFetches = 1
    /\ apiPc = "idle" => apiFetches = 0

\* C8 witness: a call has failed after its single request.
C8_Witness ==
    /\ ApiSettled
    /\ apiOp = "sendFeedback"
    /\ apiOutcome.kind = "throw"
    /\ apiFetches = 1

\* C9: every failure of a coach API call (transport failure, non-2xx status,
\* undecodable body) reaches the caller as an AICoachError or a subclass of it,
\* carrying a userMessage.
C9_EveryFailureIsAICoachError ==
    (ApiSettled /\ apiOutcome.kind = "throw") =>
        /\ apiOutcome.cls \in AICoachClasses
        /\ apiOutcome.userMessage # ""

(***************************************************************************)
(* Claims about the coach screen (SpecCoach)                               *)
(***************************************************************************)
\* C6: whenever a daily-advice, feedback, motivation or weekly-report request
\* fails with status 401, the session prompt is opened and the failure is not
\* shown as an error card or an error alert; confirming the prompt runs logout,
\* which clears token and user once the stored keys are removed.
C6_AuthFailureStartsReauth ==
    [][/\ \A r \in inflight : \A net \in CoachNet(r) :
            ( /\ net.received /\ net.status = 401
              /\ \/ CompleteDailyAdvice(r, net)
                 \/ CompleteFeedback(r, net)
                 \/ CompleteMotivation(r, net)
                 \/ CompleteWeeklyReport(r, net) )
            => /\ sessionPrompts' = sessionPrompts + 1
               /\ errorAlerts' = errorAlerts
               /\ adviceError' = adviceError
               /\ motivationError' = motivationError
               /\ reportError' = reportError
       /\ ConfirmSessionExpired => logoutPending' = logoutPending + 1
       /\ logout(TRUE) => (token' = Null /\ user' = Null /\ ~stored')
      ]_vars

\* C6 witness: a 401 opened the prompt, it was confirmed and logout cleared the
\* session, with no error card or error alert.
C6_Witness ==
    /\ token = Null /\ user = Null
    /\ adviceError = Null /\ motivationError = Null /\ reportError = Null
    /\ errorAlerts = 0

\* C7: after a daily-advice request has failed, whatever the failure, no further
\* daily-advice request is issued until the user acts; the focus effect never
\* re-issues the request by itself.
C7_NoAutomaticRetry ==
    [][(adviceFailed /\ FocusEffect) => inflight' = inflight]_vars

\* C10: when a dislike is recorded and the alternative generation fails, the
\* feedback response is a success with alternative null; the screen then marks
\* the feedback as given ('disliked'), shows no alternative card and raises no
\* error.
C10_FeedbackFailureIsolation ==
    [][\A r \in inflight :
            LET alt == FeedbackRecorder(r.technique, FALSE, GenerationFailed)
                net == Response(200, JsonBody("", alt))
            IN  (r.op = "feedback" /\ ~r.liked /\ CompleteFeedback(r, net))
                => /\ alt = Null
                   /\ feedbackState' = "disliked"
                   /\ alternative' = Null
                   /\ ~AlternativeCardShown'
                   /\ errorAlerts' = errorAlerts
                   /\ sessionPrompts' = sessionPrompts
                   /\ adviceError' = adviceError
      ]_vars

\* C10 witness: the dislike is marked as given with no alternative and no alert.
C10_Witness ==
    /\ feedbackState = "disliked"
    /\ alternative = Null
    /\ advice # Null /\ ~adviceLoading /\ ~feedbackLoading
    /\ errorAlerts = 0 /\ sessionPrompts = 0

\* C11: a feedback response that arrives after a newer daily advice was requested
\* or loaded never sets feedbackState or alternative: both always belong to the
\* advice the feedback was given on.
C11_FeedbackBelongsToDisplayedAdvice ==
    [][\A r \in inflight : \A net \in CoachNet(r) :
            ( /\ r.op = "feedback"
              /\ \/ r.technique # advice
                 \/ \E d \in inflight : d.op = "daily" /\ d.id > r.id
              /\ CompleteFeedback(r, net) )
            => /\ feedbackState' = feedbackState
               /\ alternative' = alternative
      ]_vars

\* C12: daily-advice requests in flight together complete in any order, and each
\* successful completion replaces the advice with its payload whatever the order
\* of issue (a failed one leaves it), so the advice shown once all have completed
\* is the payload of the request that completed successfully last.
C12_LastCompletedWins ==
    [][\A r \in inflight : \A net \in CoachNet(r) :
            (r.op = "daily" /\ CompleteDailyAdvice(r, net))
            => /\ advice' = IF settle(net).kind = "return" THEN settle(net).value ELSE advice
               /\ (\A d \in inflight' : d.op # "daily") => ~adviceLoading'
      ]_vars

\* C12 witness: the first daily-advice request is still in flight while a request
\* issued after it has already completed and set the advice.
C12_Witness ==
    /\ advice # Null
    /\ \E d \in inflight : d.op = "daily" /\ d.id = 1
    /\ issued >= 2

\* C15: the alternative delivered after a dislike is never equal, ignoring case,
\* to the technique that was rejected: the one sent with the feedback, which is
\* the one of the advice shown when the feedback is the only request since that
\* advice was loaded (issued = 2); a generated technique that is equal to it is
\* rejected by the service and is neither accepted nor displayed.
C15_AlternativeDiffersFromRejected ==
    [][\A r \in inflight : \A net \in CoachNet(r) :
            (r.op = "feedback" /\ ~r.liked /\ CompleteFeedback(r, net))
            => /\ alternative' # alternative =>
                    /\ toLowerCase(alternative') # toLowerCase(r.technique)
                    /\ issued = 2 => toLowerCase(alternative') # toLowerCase(advice)
               /\ \A g \in Alternatives :
                    toLowerCase(g) = toLowerCase(r.technique) =>
                        /\ getAlternativeTechnique(r.technique, g) = GenerationFailed
                        /\ (net = Response(200, JsonBody("", FeedbackRecorder(r.technique,
                                    FALSE, getAlternativeTechnique(r.technique, g)))))
                                => alternative' = alternative
      ]_vars

\* C15 witness: 'Feynman Teknigi' was disliked and the alternative shown under it
\* is a technique the service accepted although it differs from another advice
\* only by case.
C15_Witness ==
    /\ AlternativeCardShown
    /\ issued = 2
    /\ advice = "Feynman Teknigi"
    /\ alternative = "POMODORO 25/5"

(***************************************************************************)
(* Claims about one request through the coaching service (SpecService)     *)
(***************************************************************************)
\* The window the caller of getWeeklyReport asked for: days of the request given,
\* the default of 7 when no request or no days is given.
callerDays ==
    IF svcRequest.args.given /\ svcRequest.args.request.has
    THEN svcRequest.args.request.days
    ELSE 7

\* C13: getWeeklyReport with days in [3,30] never fails with InvalidRequest; with
\* days outside [3,30] it always fails with InvalidRequest (status 400 at the
\* client) and no call of the generative-model gateway is made.
C13_WeeklyWindowValidation ==
    svcRequest.op = "getWeeklyReport" =>
        IF callerDays >= 3 /\ callerDays <= 30
        THEN /\ svcStage # Failed("InvalidRequest")
             /\ svcOutcome.statusCode # 400
        ELSE /\ svcGatewayCalls = 0
             /\ svcStage \notin {"Prompting", "AwaitingModel", "Parsing"}
             /\ svcStage \in Terminal =>
                    /\ svcStage = Failed("InvalidRequest")
                    /\ svcOutcome.kind = "throw"
                    /\ svcOutcome.cls = "AICoachError"
                    /\ svcOutcome.statusCode = 400

\* C13 witness: a report over 31 days was refused before any gateway call.
C13_Witness ==
    /\ svcRequest.op = "getWeeklyReport"
    /\ callerDays = 31
    /\ svcStage = Failed("InvalidRequest")
    /\ svcGatewayCalls = 0

\* The trail of a request is a prefix of the stage order, closed by at most one
\* terminal state; Succeeded closes only the complete order.
TrailInOrder(trail) ==
    LET n == Len(trail)
        closed == n > 0 /\ trail[n] \in Terminal
        m == IF closed THEN n - 1 ELSE n
    IN  /\ m <= Len(Stages)
        /\ \A i \in 1..m : trail[i] = Stages[i]
        /\ (closed /\ trail[n] = "Succeeded") => m = Len(Stages)

\* C14: a request moves through Pending, Assembling, Prompting, AwaitingModel,
\* Parsing in this order and ends in exactly one terminal state, Succeeded or
\* Failed(kind), which settles the client's promise once; no stage is revisited,
\* and a new request starts at Pending with nothing of the previous one.
C14_StagesInOrder ==
    [][/\ TrailInOrder(svcTrail')
       /\ svcStage' = svcTrail'[Len(svcTrail')]
       /\ svcStage \in Terminal => svcTrail' = <<"Pending">>
       /\ svcOutcome' = NoOutcome <=> svcStage' \notin Terminal
       /\ svcOutcome'.kind = "return" <=> svcStage' = "Succeeded"
       /\ svcServed' # svcServed =>
            /\ svcTrail' = <<"Pending">>
            /\ svcGatewayCalls' = 0
            /\ svcOutcome' = NoOutcome
      ]_vars

\* C14 witness: the second request went through every stage and succeeded.
C14_Witness ==
    /\ svcServed = 2
    /\ svcTrail = Stages \o <<"Succeeded">>
    /\ svcOutcome.kind = "return"

(***************************************************************************)
(* Claims about checkAIHealth and sendFeedback (SpecClient)                *)
(***************************************************************************)
\* C16: checkAIHealth sends no credential and always resolves, never rejects, to
\* a status object whose status is 'healthy' or 'unhealthy'; when the service
\* cannot be reached it resolves with status 'unhealthy', model null and an error.
C16_HealthAlwaysResolves ==
    /\ hcSent.sent => ~hcSent.credential
    /\ hcPc = "done" =>
        /\ hcResult.kind = "resolve"
        /\ hcResult.status \in {"healthy", "unhealthy"}
        /\ ~hcResponse.received =>
            /\ hcResult.status = "unhealthy"
            /\ hcResult.model = Null
            /\ hcResult.error \notin {Null, Undefined}

\* C17: sendFeedback always sends an advice_type: the caller's value when the
\* request carries one, and 'daily' when it does not.
C17_AdviceTypeAlwaysSent ==
    fbSent.sent =>
        /\ fbSent.body.advice_type \in {"daily", "weekly", "alternative"}
        /\ fbRequest.advice_type \in {"daily", "weekly", "alternative"} =>
                fbSent.body.advice_type = fbRequest.advice_type
        /\ fbRequest.advice_type \notin {"daily", "weekly", "alternative"} =>
                fbSent.body.advice_type = "daily"

(***************************************************************************)
(* Claims about the pomodoro timer (SpecTimer)                             *)
(***************************************************************************)
\* C18: turning breaks off while the timer is in SHORT_BREAK or LONG_BREAK, or
\* turning long breaks off while it is in LONG_BREAK, immediately puts the timer
\* in WORK mode, stopped, with the remaining time equal to the full work duration.
C18_BreaksOffReturnsToWork ==
    [][( \/ (mode \in {"SHORT_BREAK", "LONG_BREAK"} /\ SetBreaksEnabled(FALSE))
         \/ (mode = "LONG_BREAK" /\ SetLongBreaksEnabled(FALSE)) )
       => /\ mode' = "WORK"
          /\ ~isActive'
          /\ minutes' = workDuration /\ seconds' = 0 /\ milliseconds' = 0
          /\ workDuration' = workDuration
      ]_vars

\* C18 witness: a running long break was ended by turning long breaks off.
C18_Witness ==
    /\ forcedToWork
    /\ ~longBreaksEnabled /\ breaksEnabled
    /\ mode = "WORK" /\ ~isActive
    /\ minutes = workDuration /\ seconds = 0 /\ milliseconds = 0
    /\ ticks > 0

\* C19: when a WORK period runs to zero with breaks enabled the timer enters
\* LONG_BREAK if long breaks are enabled and the completed pomodoros, this one
\* included, are a multiple of the long-break interval, and SHORT_BREAK otherwise;
\* with breaks disabled it returns to WORK; when a break runs to zero it enters WORK.
C19_NextModeBySettings ==
    [][handleTimerComplete =>
            mode' = IF mode # "WORK" THEN "WORK"
                    ELSE IF ~breaksEnabled THEN "WORK"
                    ELSE IF longBreaksEnabled
                            /\ (completedPomodoros + 1) % longBreakInterval = 0
                         THEN "LONG_BREAK"
                         ELSE "SHORT_BREAK"
      ]_vars

\* C20: when a period runs to zero the next period starts running by itself if
\* auto-start is on (also when breaks are off and the timer was reset to WORK:
\* the start is then the pending timeout), and the timer stays stopped at the
\* start of the next period if auto-start is off.
C20_AutoStartDecidesRunning ==
    [][handleTimerComplete =>
            /\ <<seconds', milliseconds'>> = <<0, 0>>
            /\ IF autoStart
               THEN autoStartDue' /\ (isActive' \/ (mode = "WORK" /\ ~breaksEnabled))
               ELSE ~isActive' /\ ~autoStartDue'
      ]_vars

\* C21: resetTimer always leaves the timer in WORK mode, stopped, with the remaining
\* time equal to the full configured work duration (seconds and tenths zero),
\* whatever mode and remaining time it had before.  Its two callers are the long
\* press and handleTimerComplete at the end of a WORK period with breaks off.
C21_ResetLeavesFullWorkPeriod ==
    [][( \/ LongPressReset
         \/ (handleTimerComplete /\ mode = "WORK" /\ ~closure.breaksEnabled) )
       => /\ mode' = "WORK"
          /\ ~isActive'
          /\ minutes' = workDuration' /\ seconds' = 0 /\ milliseconds' = 0
          /\ workDuration' = workDuration
      ]_vars

\* C21 witness: a long press has reset a timer that had run for some ticks; only
\* the long press sets the interaction lock.
C21_Witness ==
    /\ isInteractionLocked
    /\ ticks > 0
    /\ mode = "WORK" /\ ~isActive
    /\ minutes = workDuration /\ seconds = 0 /\ milliseconds = 0

\* The documented ranges of the configured durations.
DurationsInRange ==
    /\ workDuration \in 1..720
    /\ shortBreakDuration \in 1..10
    /\ longBreakDuration \in 10..120
    /\ longBreakInterval >= 1

\* The text is a number as JavaScript reads one (Number(text) is not NaN): after
\* leading blanks either a 0x literal, or an optional sign and decimal digits
\* with at most one point.
IsNumber(input) ==
    LET trimmed == TrimStart(input)
        signed == trimmed # <<>> /\ Head(trimmed) \in {"+", "-"}
        unsigned == IF signed THEN Tail(trimmed) ELSE trimmed
        points == {i \in 1..Len(unsigned) : unsigned[i] = "."}
    IN  \/ /\ ~signed
           /\ Len(unsigned) >= 3 /\ unsigned[1] = "0" /\ unsigned[2] \in {"x", "X"}
           /\ \A i \in 3..Len(unsigned) : DigitValue(unsigned[i]) < 16
        \/ /\ \E i \in 1..Len(unsigned) : DigitValue(unsigned[i]) < 10
           /\ \A i \in 1..Len(unsigned) : DigitValue(unsigned[i]) < 10 \/ unsigned[i] = "."
           /\ Cardinality(points) <= 1

\* C22: after any sequence of timer and settings actions the configured durations
\* stay in their documented ranges (work 1..720, short break 1..10, long break
\* 10..120, long-break interval at least 1), and a custom value that is not a
\* number or is outside 1..720 is rejected and leaves the timer unchanged.
C22_DurationsStayInRange ==
    /\ []DurationsInRange
    /\ [][\A input \in CustomInputs :
            (setCustomTime(input)
                /\ (~IsNumber(input) \/ parseInt(input).nan
                        \/ parseInt(input).value \notin 1..720))
            => UNCHANGED <<timeVars, isActive, mode, durationVars>>
         ]_vars

(***************************************************************************)
(* Claims about the route guard (SpecGuard)                                *)
(***************************************************************************)
\* The guard effect has run since its dependencies last changed.
Settled == ~isLoading /\ ~guardDue

\* C23: once stored auth has finished loading the route guard sends an
\* unauthenticated user outside the auth group to login, an authenticated user
\* with an incomplete profile who is not on complete-profile there, and an
\* authenticated user with a complete profile who is in the auth group or on
\* complete-profile to the tabs, and the route it sends them to needs no further
\* redirect; so in every settled state an unauthenticated user is in the auth
\* group, never on a tabs screen.
C23_GuardKeepsRoutesConsistent ==
    /\ [][(RouteGuard /\ ~isLoading) =>
            /\ (~isAuthenticated /\ segments # "(auth)") => segments' = "(auth)"
            /\ (isAuthenticated /\ ~authUser.is_profile_complete
                    /\ segments # "complete-profile") => segments' = "complete-profile"
            /\ (isAuthenticated /\ authUser.is_profile_complete
                    /\ segments \in {"(auth)", "complete-profile"}) => segments' = "(tabs)"
            /\ guardTarget(isAuthenticated', authUser', segments') = NoRedirect
         ]_vars
    /\ [](Settled =>
            /\ ~isAuthenticated => (segments = "(auth)" /\ segments # "(tabs)")
            /\ (isAuthenticated /\ ~authUser.is_profile_complete)
                    => segments = "complete-profile"
            /\ (isAuthenticated /\ authUser.is_profile_complete)
                    => segments \in {"(tabs)", "modal"})

\* C23 witness: a user who is not signed in and has nothing stored was outside
\* the auth group, and the guard has sent them to login.
C23_Witness ==
    /\ Settled
    /\ redirected = "(auth)"
    /\ segments = "(auth)"
    /\ ~isAuthenticated
    /\ storage = Storage(Absent, Absent)

(***************************************************************************)
(* Claims about the register screen (SpecRegister)                         *)
(***************************************************************************)
\* The text has a character that is not a blank.
NonBlank(text) == \E i \in 1..Len(text) : text[i] # " "

\* An email in the sense of the pattern: no blank, exactly one @ with something
\* before it, and after it a dot with something on both sides.
WellFormed(text) ==
    LET ats == {i \in 1..Len(text) : text[i] = "@"}
    IN  /\ \A i \in 1..Len(text) : text[i] # " "
        /\ Cardinality(ats) = 1
        /\ \E at \in ats :
                /\ at > 1
                /\ \E dot \in (at + 2)..(Len(text) - 1) : text[dot] = "."

AllValidationsPass ==
    /\ NonBlank(fullName)
    /\ NonBlank(email) /\ WellFormed(trim(email))
    /\ Len(password) >= 6
    /\ confirmPassword = password

RegOps == [i \in 1..Len(regSent) |-> regSent[i].op]

\* C24: handleRegister sends no request (register, login or getUser) unless all
\* validations pass: full name non-blank, email non-blank and well-formed,
\* password at least 6 characters, confirmation equal to the password; and the
\* user is stored in the auth context only after register, login and getUser
\* have all succeeded in that order.
C24_RegisterValidatesThenStores ==
    /\ (regSent # <<>> \/ regPc # "idle") => AllValidationsPass
    /\ regStored => /\ RegOps = <<"register", "login", "getUser">>
                    /\ regResults = <<"ok", "ok", "ok">>
    /\ Len(regSent) <= 3
    /\ \A i \in 1..Len(regSent) : regSent[i].op = <<"register", "login", "getUser">>[i]
    /\ \A i \in 2..Len(regSent) : regResults[i - 1] = "ok"

\* C24 witness: a valid form, typed with blanks around the email, has gone through
\* register, login and getUser, and the user is stored.
C24_Witness ==
    /\ regStored
    /\ regPc = "done"
    /\ email # trim(email)
    /\ Len(regSent) = 3
    /\ regSent[1] = Request("register", trim(email))

====
